---- MODULE Spec2Model ----
(***************************************************************************)
(* Supervisor orchestration engine of the trip planner.                    *)
(*                                                                         *)
(* One run of server.chat.event_stream driving orchestrator.orchestrate:   *)
(* the turn loop around the reasoning endpoint, the categorisation of the  *)
(* requested tool calls, the dispatch of specialist calls (direct for one  *)
(* request, asyncio.gather for several) through AgentClient.send_task, and *)
(* the fold-back of results into `messages` and into the event stream.     *)
(*                                                                         *)
(* The reasoning endpoint and the specialists are the environment: their   *)
(* answers are drawn from the small sets below.                            *)
(***************************************************************************)
EXTENDS Integers, Sequences, FiniteSets, TLC

(***************************************************************************)
(* Program constants                                                       *)
(***************************************************************************)
\* orchestrator.py:177
max_turns == 15
\* orchestrator.py:275  task[:150]
TaskDisplayLen == 150
\* agent_client.py:27  resp.text[:200]
BodyExcerptLen == 200

(***************************************************************************)
(* Bounds of the environment                                               *)
(***************************************************************************)
\* largest number of tool calls in one response of the reasoning endpoint
MaxBatch == 2
\* largest number of tool calls the endpoint requests in one run, the
\* leading filler turns not counted; once it has requested that many, it
\* gives its final answer (a call of the endpoint may fail in every turn)
MaxRequests == 3
\* the turns left to the endpoint after the leading filler turns of a long run
TailTurns == 2

(***************************************************************************)
(* Registry                                                                *)
(***************************************************************************)
\* orchestrator.py:139-145
TOOL_TO_AGENT ==
    [n \in {"call_weather_agent", "call_packing_agent", "call_activities_agent",
            "call_budget_agent", "call_transport_agent"} |->
        CASE n = "call_weather_agent"    -> "weather"
          [] n = "call_packing_agent"    -> "packing"
          [] n = "call_activities_agent" -> "activities"
          [] n = "call_budget_agent"     -> "budget"
          [] n = "call_transport_agent"  -> "transport"]

\* orchestrator.py:147-153
AGENT_DISPLAY_NAMES ==
    [k \in {"weather", "packing", "activities", "budget", "transport"} |->
        CASE k = "weather"    -> "Weather Agent"
          [] k = "packing"    -> "Packing Agent"
          [] k = "activities" -> "Activities Agent"
          [] k = "budget"     -> "Budget Agent"
          [] k = "transport"  -> "Transport Agent"]

\* config.py:8-14  the keys of AGENT_URLS
AGENT_URLS == {"weather", "packing", "activities", "budget", "transport"}

\* agent_client.py:11-13  AgentClient(url, f"{name.title()} Agent").agent_name
agent_name(name) ==
    CASE name = "weather"    -> "Weather Agent"
      [] name = "packing"    -> "Packing Agent"
      [] name = "activities" -> "Activities Agent"
      [] name = "budget"     -> "Budget Agent"
      [] name = "transport"  -> "Transport Agent"

\* agent_client.py:37-40  the registry: one client per key of AGENT_URLS
agents == AGENT_URLS

(***************************************************************************)
(* JSON argument texts and json.loads                                      *)
(***************************************************************************)
TaskJson    == "{\"task\": \"forecast\"}"
ContextJson == "{\"task\": \"pack\", \"context\": \"rainy\"}"
StepsJson   == "{\"steps\": [{\"agent\": \"weather\", \"reason\": \"r\"}]}"
NoAgentJson == "{\"steps\": [{\"reason\": \"r\"}]}"
BudgetStepsJson == "{\"steps\": [{\"agent\": \"budget\", \"reason\": \"r\"}]}"
EmptyObject == "{}"
BrokenJson  == "{\"task\": \"fore"

\* json.loads on the texts above: ok = FALSE stands for json.JSONDecodeError,
\* value is the dict as a function from its keys
json_loads(text) ==
    CASE text = TaskJson    -> [ok |-> TRUE, value |-> [k \in {"task"} |-> "forecast"]]
      [] text = ContextJson -> [ok |-> TRUE,
                                value |-> [k \in {"task", "context"} |->
                                             IF k = "task" THEN "pack" ELSE "rainy"]]
      [] text = StepsJson   -> [ok |-> TRUE,
                                value |-> [k \in {"steps"} |->
                                             <<[f \in {"agent", "reason"} |->
                                                 IF f = "agent" THEN "weather" ELSE "r"]>>]]
      [] text = BudgetStepsJson -> [ok |-> TRUE,
                                value |-> [k \in {"steps"} |->
                                             <<[f \in {"agent", "reason"} |->
                                                 IF f = "agent" THEN "budget" ELSE "r"]>>]]
      [] text = NoAgentJson -> [ok |-> TRUE,
                                value |-> [k \in {"steps"} |->
                                             <<[f \in {"reason"} |-> "r"]>>]]
      [] text = EmptyObject -> [ok |-> TRUE, value |-> [k \in {} |-> ""]]
      [] OTHER              -> [ok |-> FALSE, value |-> [k \in {} |-> ""]]

\* json.loads(tc.function.arguments) if tc.function.arguments else {}
\* (orchestrator.py:218, 270, 284, 319)
load_args(arguments) ==
    IF arguments = "" THEN [ok |-> TRUE, value |-> [k \in {} |-> ""]]
    ELSE json_loads(arguments)

\* dict.get(key, default)
dict_get(d, key, default) == IF key \in DOMAIN d THEN d[key] ELSE default

\* s[:n]
Truncate(s, n) == IF Len(s) <= n THEN s ELSE SubSeq(s, 1, n)

\* ', '.join(seq)
RECURSIVE Join(_)
Join(seq) ==
    IF Len(seq) = 0 THEN ""
    ELSE IF Len(seq) = 1 THEN seq[1]
    ELSE seq[1] \o ", " \o Join(Tail(seq))

\* [s["agent"] for s in steps]: KeyError when a step has no "agent"
steps_raise(steps) == \E j \in 1..Len(steps) : "agent" \notin DOMAIN steps[j]
step_agents(steps) == [j \in 1..Len(steps) |-> steps[j]["agent"]]

(***************************************************************************)
(* The environment: answers of the reasoning endpoint                      *)
(***************************************************************************)
\* msg.content: absent (None) or a text
NoContent  == [present |-> FALSE, text |-> ""]
SomeAnswer == [present |-> TRUE, text |-> "Here is your trip plan."]
Contents   == {NoContent, SomeAnswer}

\* msg.content or ""  (orchestrator.py:352)
content_or_empty(c) == IF c.present /\ c.text # "" THEN c.text ELSE ""
\* msg.content or None  (orchestrator.py:196)
content_or_none(c) == IF c.present /\ c.text # "" THEN c ELSE NoContent

\* the tool calls the endpoint may request: name and argument text
Shapes ==
    { [name |-> "create_plan",        arguments |-> StepsJson],
      [name |-> "create_plan",        arguments |-> ""],
      [name |-> "create_plan",        arguments |-> BrokenJson],
      [name |-> "create_plan",        arguments |-> NoAgentJson],
      [name |-> "call_hotel_agent",   arguments |-> TaskJson],
      [name |-> "call_weather_agent", arguments |-> TaskJson],
      [name |-> "call_weather_agent", arguments |-> BrokenJson],
      [name |-> "call_packing_agent", arguments |-> ContextJson],
      [name |-> "create_plan",        arguments |-> BudgetStepsJson],
      [name |-> "call_budget_agent",  arguments |-> ""] }

\* the responses with tool calls: 1..MaxBatch requests in any order
Batches == UNION { [1..n -> Shapes] : n \in 1..MaxBatch }

\* the response of the turns before the rich ones
FillerBatch == << [name |-> "call_hotel_agent", arguments |-> TaskJson] >>

\* the number of leading filler turns of a run: none, or as many as leave
\* the rich turns at the end of the turn budget
Leads == {0, max_turns - TailTurns}

(***************************************************************************)
(* The environment: outcomes of one POST /task                             *)
(***************************************************************************)
Envelope(status, result, tools) ==
    [k \in {"status", "result", "tools_called"} |->
        CASE k = "status" -> status
          [] k = "result" -> result
          [] k = "tools_called" -> tools]

Outcomes ==
    { [kind |-> "auth"],
      [kind |-> "exception", err |-> "timed out"],
      [kind |-> "exception", err |-> "connection refused"],
      [kind |-> "http", status_code |-> 500, text |-> "Internal Server Error"],
      [kind |-> "http", status_code |-> 200, text |-> "",
       json |-> Envelope("error", "tool backend down", <<[tool |-> "get_forecast"]>>)],
      [kind |-> "http", status_code |-> 200, text |-> "",
       json |-> Envelope("success", "sunny, 21C", <<[tool |-> "get_forecast"]>>)],
      [kind |-> "http", status_code |-> 200, text |-> "",
       json |-> [k \in {"status"} |-> "partial"]] }

\* the dict send_task returns for a failure (agent_client.py:27, 33)
ErrorDict(text) == Envelope("error", text, <<>>)

\* send_task without its `except Exception`: a timeout or a transport
\* failure leaves it
send_task_uncaught(name, outcome) ==
    CASE outcome.kind \in {"auth", "exception"} ->
           [raised |-> TRUE, value |-> ErrorDict("")]
      [] outcome.kind = "http" /\ outcome.status_code # 200 ->
           [raised |-> FALSE,
            value |-> ErrorDict("HTTP " \o ToString(outcome.status_code) \o ": "
                                \o Truncate(outcome.text, BodyExcerptLen))]
      [] OTHER ->
           [raised |-> FALSE, value |-> outcome.json]

\* AgentClient.send_task (agent_client.py:15-33) for one outcome of the
\* request: raised = TRUE when the exception leaves send_task
\* (get_auth_headers, line 16, runs outside the try)
send_task(name, outcome) ==
    CASE outcome.kind = "auth" ->
           [raised |-> TRUE, value |-> ErrorDict("")]
      [] outcome.kind = "exception" ->
           [raised |-> FALSE,
            value |-> ErrorDict("Failed to reach " \o agent_name(name) \o ": " \o outcome.err)]
      [] outcome.kind = "http" /\ outcome.status_code # 200 ->
           [raised |-> FALSE,
            value |-> ErrorDict("HTTP " \o ToString(outcome.status_code) \o ": " \o Truncate(outcome.text, BodyExcerptLen))]
      [] OTHER ->
           [raised |-> FALSE, value |-> outcome.json]

(***************************************************************************)
(* State                                                                   *)
(***************************************************************************)
VARIABLES
    pc,                \* position of event_stream / orchestrate
    turn,              \* the loop variable of `for turn in range(max_turns)`
    messages,          \* the conversation
    events,            \* the events yielded so far, in order
    planned_agents,
    completed_agents,
    tool_calls,        \* msg.tool_calls of the current turn
    i,                 \* index of the for loop being executed
    agent_keys,
    calls,             \* the specialist calls of the current batch
    completion,        \* indices of `calls` in the order they resolved
    msg_content,       \* msg.content of the endpoint's last response
    response_kind,     \* what the last call of the endpoint gave:
                       \* "none", "failure", "final" or "tools"
    model_calls,       \* number of calls of the reasoning endpoint so far
    next_id,           \* the endpoint's next tool-call id
    lead,              \* number of leading filler turns of this run
    registry,          \* the keys the module-level `agents` dict holds
    request_messages,  \* the `messages` argument of the last endpoint call
    \* a specialist process (agent-transport, agent-packing): run_task
    rt_pc,             \* position of run_task
    rt_turn,           \* its loop variable `turn`
    rt_mcp_tools,      \* its `mcp_tools`
    rt_messages,       \* its `messages`
    rt_tools_called,   \* its `tools_called`
    rt_tool_calls,     \* msg.tool_calls of its current turn
    rt_i,              \* index of its tool execution loop
    rt_return,         \* what run_task returned
    rt_model_calls,    \* number of chat.completions.create calls of the task
    rt_mcp_calls,      \* the calls of mcp.call_tool of the task, in order
    rt_requested,      \* tool calls the model requested outside filler turns
    rt_lead,           \* number of leading filler turns of the task
    rt_tasks,          \* number of run_task calls the process has served
    rt_service,        \* the specialist the process is: "Transport" or "Packing"
    rt_response_kind,  \* what the last call of the specialist's model gave:
                       \* "none", "failure", "final" or "tools"
    \* the module-level MCPClient of the process
    tools_cache,       \* mcp._tools_cache
    list_calls,        \* the direct calls of mcp.list_tools, in order of start
    tool_requests      \* number of GET /api/tools requests sent

orchestrator_vars ==
    <<pc, turn, messages, events, planned_agents, completed_agents,
      tool_calls, i, agent_keys, calls, completion, msg_content, response_kind,
      model_calls, next_id, lead, registry, request_messages>>

run_task_vars ==
    <<rt_pc, rt_turn, rt_mcp_tools, rt_messages, rt_tools_called, rt_tool_calls,
      rt_i, rt_return, rt_model_calls, rt_mcp_calls, rt_requested, rt_lead,
      rt_tasks, rt_service, rt_response_kind>>

mcp_vars == <<tools_cache, list_calls, tool_requests>>

agent_vars == <<run_task_vars, mcp_vars>>

vars == <<orchestrator_vars, agent_vars>>

\* mcp_client.py:15  `_tools_cache = None`, and a cache that holds a list
NoCache == [present |-> FALSE, tools |-> <<>>]
Cached(tools) == [present |-> TRUE, tools |-> tools]

\* run_task has not returned (yet): no envelope
NoReturn == [status |-> "", result |-> "", tools_called |-> <<>>]

\* the specialist process after start-up: agent.py:10 `mcp = MCPClient()`,
\* no task received yet
AgentInit ==
    /\ rt_pc = "idle"
    /\ rt_turn = 0
    /\ rt_mcp_tools = <<>>
    /\ rt_messages = <<>>
    /\ rt_tools_called = <<>>
    /\ rt_tool_calls = <<>>
    /\ rt_i = 0
    /\ rt_return = NoReturn
    /\ rt_model_calls = 0
    /\ rt_mcp_calls = <<>>
    /\ rt_requested = 0
    /\ rt_lead = 0
    /\ rt_tasks = 0
    /\ rt_service = "Transport"
    /\ rt_response_kind = "none"
    /\ tools_cache = NoCache
    /\ list_calls = <<>>
    /\ tool_requests = 0

\* orchestrator.py:204-214
IsPlanCall(tc)    == tc.name = "create_plan"
IsAgentCall(tc)   == tc.name # "create_plan" /\ tc.name \in DOMAIN TOOL_TO_AGENT
\* a request that names no tool is dropped without an answer
IsUnknownCall_Never(tc) == FALSE
IsUnknownCall(tc) == tc.name # "create_plan" /\ tc.name \notin DOMAIN TOOL_TO_AGENT
plan_calls    == SelectSeq(tool_calls, IsPlanCall)
\* the specialist requests with a repeated action name dropped
agent_calls_distinct ==
    LET all == SelectSeq(tool_calls, IsAgentCall)
    IN  SelectSeq(all, LAMBDA tc :
            \A j \in 1..Len(all) : all[j].name = tc.name => all[j].id >= tc.id)

agent_calls   == SelectSeq(tool_calls, IsAgentCall)
unknown_calls == SelectSeq(tool_calls, IsUnknownCall)

\* every batch counted as parallel
is_parallel_nonempty == Len(agent_calls) > 0

\* orchestrator.py:258
is_parallel == Len(agent_calls) > 1

Init ==
    /\ pc = "start"
    /\ turn = 0
    /\ messages = <<>>
    /\ events = <<>>
    /\ planned_agents = <<>>
    /\ completed_agents = <<>>
    /\ tool_calls = <<>>
    /\ i = 0
    /\ agent_keys = <<>>
    /\ calls = <<>>
    /\ completion = <<>>
    /\ msg_content = NoContent
    /\ response_kind = "none"
    /\ model_calls = 0
    /\ next_id = 1
    /\ lead \in Leads
    /\ registry = agents
    /\ request_messages = <<>>
    /\ AgentInit

(***************************************************************************)
(* Helpers of the actions                                                  *)
(***************************************************************************)
\* an exception leaves orchestrate: event_stream ends without `done`
Raise ==
    /\ pc' = "crashed"
    /\ UNCHANGED <<turn, messages, events, planned_agents, completed_agents,
                   tool_calls, i, agent_keys, calls, completion, msg_content, response_kind,
                   model_calls, next_id, lead, registry, request_messages, agent_vars>>

\* the tool message that answers request tc (orchestrator.py:227, 235, 310, 342)
ToolMessage(tc, content) ==
    [role |-> "tool", tool_call_id |-> tc.id, content |-> content]

\* orchestrator.py:196-201
AssistantMessage(content, tcs) ==
    [role |-> "assistant", content |-> content_or_none(content), tool_calls |-> tcs]

\* the requests of this run so far, the filler turns not counted
Requested == next_id - 1 - (IF turn < lead THEN turn ELSE lead)

\* the responses the endpoint may give with tool calls in the current turn
TurnBatches ==
    IF turn < lead THEN {FillerBatch}
    ELSE {b \in Batches : Len(b) <= MaxRequests - Requested}

\* the tool calls of a response: the endpoint gives each request a fresh id
WithIds(batch) ==
    [j \in 1..Len(batch) |->
        [id |-> next_id + j - 1, name |-> batch[j].name, arguments |-> batch[j].arguments]]

\* the tuple without the error flag
NotAvailable_NotError(tc) ==
    [tc |-> tc, ak |-> TOOL_TO_AGENT[tc.name],
     result_text |-> "Agent '" \o TOOL_TO_AGENT[tc.name] \o "' not available",
     is_error |-> FALSE, tools_called |-> <<>>]

\* the 5-tuple _call_agent returns (orchestrator.py:289, 291-297) and the
\* values the single-agent branch computes (orchestrator.py:325-332)
NotAvailable(tc) ==
    [tc |-> tc, ak |-> TOOL_TO_AGENT[tc.name],
     result_text |-> "Agent '" \o TOOL_TO_AGENT[tc.name] \o "' not available",
     is_error |-> TRUE, tools_called |-> <<>>]

AgentResult(tc, res) ==
    [tc |-> tc, ak |-> TOOL_TO_AGENT[tc.name],
     result_text |-> dict_get(res, "result", "No result"),
     is_error |-> (dict_get(res, "status", "") = "error"),
     tools_called |-> dict_get(res, "tools_called", <<>>)]

\* a specialist call once its coroutine has run up to its first await
\* (orchestrator.py:283-290, 318-329): task and context are the arguments
\* handed to send_task; the call is resolved at once when the registry has
\* no client for the key
Started(tc) ==
    LET args == load_args(tc.arguments).value
    IN  [st      |-> IF TOOL_TO_AGENT[tc.name] \in registry THEN "inflight" ELSE "done",
         outcome |-> [kind |-> "none"],
         client  |-> TOOL_TO_AGENT[tc.name],
         task    |-> dict_get(args, "task", ""),
         context |-> dict_get(args, "context", ""),
         r       |-> NotAvailable(tc)]

\* the call once send_task has met `outcome`: it has returned a dict, or
\* the exception has left it
Resolved(call, outcome) ==
    LET res == send_task(call.client, outcome)
    IN  IF res.raised
        THEN [call EXCEPT !.st = "raised", !.outcome = outcome]
        ELSE [call EXCEPT !.st = "done", !.outcome = outcome,
                          !.r = AgentResult(call.r.tc, res.value)]

\* a wait that returns with the first completed awaitable
GatherReturns_Any(cs) == \E j \in 1..Len(cs) : cs[j].st = "done"

\* asyncio.gather (orchestrator.py:299) returns when every awaitable has
\* returned
GatherReturns(cs) == \A j \in 1..Len(cs) : cs[j].st = "done"

\* asyncio.gather raises as soon as one awaitable has raised
GatherRaises(cs) == \E j \in 1..Len(cs) : cs[j].st = "raised"

\* the results in the order in which the calls completed
gather_results_completion ==
    [j \in 1..Len(calls) |->
        IF j <= Len(completion) THEN calls[completion[j]].r ELSE calls[j].r]

\* results = await asyncio.gather(...): the results in the order of the
\* awaitables passed, whatever the order of completion (orchestrator.py:299)
gather_results == [j \in 1..Len(calls) |-> calls[j].r]

\* the agent_result event with the descriptors kept whatever the flag
AgentResultEvent_KeepTools(r) ==
    [type |-> "agent_result", agent |-> r.ak, result |-> r.result_text,
     tools_called |-> r.tools_called, is_error |-> r.is_error]

\* the agent_result event (orchestrator.py:303-309, 335-341)
AgentResultEvent(r) ==
    [type |-> "agent_result", agent |-> r.ak, result |-> r.result_text,
     tools_called |-> IF ~r.is_error THEN r.tools_called ELSE <<>>,
     is_error |-> r.is_error]

\* the content of the result message (orchestrator.py:313, 345)
ResultContent(r) ==
    IF ~r.is_error THEN r.result_text ELSE "ERROR: " \o r.result_text

\* `continue`: the next iteration of the turn loop
NextTurn ==
    /\ pc' = "loop"
    /\ turn' = turn + 1
    /\ i' = 0
    /\ UNCHANGED <<tool_calls, agent_keys, calls, completion>>

\* `continue` inside the fold-back loop: the turn ends with the first result
LastFold_Early == TRUE

\* the fold-back loop has reached the last result (orchestrator.py:301)
LastFold == i = Len(gather_results)

(***************************************************************************)
(* Actions                                                                 *)
(***************************************************************************)
\* the endpoint is given the last message alone
chat_messages_last == SubSeq(messages, Len(messages), Len(messages))

\* messages=messages (orchestrator.py:182): the endpoint is given the whole
\* conversation
chat_messages == messages

\* orchestrator.py:162-175: the status event and the seed of the conversation
Start ==
    /\ pc = "start"
    /\ events' = Append(events, [type |-> "status",
                                 message |-> "Planning which agents to use..."])
    /\ messages' = << [role |-> "system", content |-> "SUPERVISOR_SYSTEM_PROMPT"],
                      [role |-> "user", content |-> "user_message"] >>
    /\ pc' = "loop"
    /\ UNCHANGED <<turn, planned_agents, completed_agents, tool_calls, i,
                   agent_keys, calls, completion, msg_content, response_kind, model_calls,
                   next_id, lead, registry, request_messages, agent_vars>>

\* the failure is swallowed and the loop goes on to its next turn
ModelFailure_Retry ==
    /\ pc = "loop"
    /\ turn < max_turns
    /\ model_calls' = model_calls + 1
    /\ request_messages' = chat_messages
    /\ response_kind' = "failure"
    /\ turn' = turn + 1
    /\ UNCHANGED <<pc, messages, events, planned_agents, completed_agents,
                   tool_calls, i, agent_keys, calls, completion, msg_content,
                   next_id, lead, registry, agent_vars>>

\* orchestrator.py:179-189: the call of the reasoning endpoint raises
ModelFailure ==
    /\ pc = "loop"
    /\ turn < max_turns
    /\ model_calls' = model_calls + 1
    /\ request_messages' = chat_messages
    /\ events' = Append(events, [type |-> "error",
                                 error |-> "Model API error: connection error"])
    /\ response_kind' = "failure"
    /\ pc' = "returned"
    /\ UNCHANGED <<turn, messages, planned_agents, completed_agents, tool_calls,
                   i, agent_keys, calls, completion, msg_content, next_id, lead, registry, agent_vars>>

\* the final answer without its synthesis_start event
FinalAnswer_NoSynthesis ==
    /\ pc = "loop"
    /\ turn < max_turns
    /\ \E content \in Contents :
         msg_content' = content
    /\ response_kind' = "final"
    /\ model_calls' = model_calls + 1
    /\ request_messages' = chat_messages
    /\ pc' = "synth"
    /\ UNCHANGED <<turn, messages, events, planned_agents, completed_agents,
                   tool_calls, i, agent_keys, calls, completion, next_id, lead, registry, agent_vars>>

\* orchestrator.py:350-353: a response without tool calls
FinalAnswer ==
    /\ pc = "loop"
    /\ turn < max_turns
    /\ \E content \in Contents :
         msg_content' = content
    /\ response_kind' = "final"
    /\ model_calls' = model_calls + 1
    /\ request_messages' = chat_messages
    /\ events' = Append(events, [type |-> "synthesis_start"])
    /\ pc' = "synth"
    /\ UNCHANGED <<turn, messages, planned_agents, completed_agents, tool_calls,
                   i, agent_keys, calls, completion, next_id, lead, registry, agent_vars>>

\* the response is yielded and the loop goes on
Respond_Continue ==
    /\ pc = "synth"
    /\ events' = Append(events, [type |-> "response",
                                 text |-> content_or_empty(msg_content)])
    /\ pc' = "loop"
    /\ UNCHANGED <<turn, messages, planned_agents, completed_agents, tool_calls,
                   i, agent_keys, calls, completion, msg_content, response_kind,
                   model_calls, next_id, lead, registry, request_messages, agent_vars>>

\* orchestrator.py:352, 354-355
Respond ==
    /\ pc = "synth"
    /\ events' = Append(events, [type |-> "response",
                                 text |-> content_or_empty(msg_content)])
    /\ pc' = "returned"
    /\ UNCHANGED <<turn, messages, planned_agents, completed_agents, tool_calls,
                   i, agent_keys, calls, completion, msg_content, response_kind,
                   model_calls, next_id, lead, registry, request_messages, agent_vars>>

\* orchestrator.py:194-214: a response with tool calls; the assistant
\* message is appended and the calls are categorised
ActionsRequested ==
    /\ pc = "loop"
    /\ turn < max_turns
    /\ \E batch \in TurnBatches :
         /\ tool_calls' = WithIds(batch)
         /\ messages' = Append(messages, AssistantMessage(NoContent, WithIds(batch)))
         /\ next_id' = next_id + Len(batch)
    /\ msg_content' = NoContent
    /\ response_kind' = "tools"
    /\ model_calls' = model_calls + 1
    /\ request_messages' = chat_messages
    /\ pc' = "plan"
    /\ i' = 1
    /\ UNCHANGED <<turn, events, planned_agents, completed_agents, agent_keys,
                   calls, completion, lead, registry, agent_vars>>

\* the steps of the request added to the plan already declared
declared_plan_extended(steps) == planned_agents \o step_agents(steps)

\* planned_agents = [s["agent"] for s in steps] (orchestrator.py:220): the
\* declared plan is replaced by the agents of the request's steps
declared_plan(steps) == step_agents(steps)

\* orchestrator.py:217-231: one create_plan request
HandlePlan ==
    /\ pc = "plan"
    /\ i <= Len(plan_calls)
    /\ LET tc      == plan_calls[i]
           tc_args == load_args(tc.arguments)
           steps   == dict_get(tc_args.value, "steps", <<>>)
       IN  IF ~tc_args.ok \/ steps_raise(steps)
           THEN Raise
           ELSE /\ planned_agents' = declared_plan(steps)
                /\ events' = Append(events, [type |-> "plan", steps |-> steps,
                                             agents |-> declared_plan(steps)])
                /\ messages' = Append(messages,
                      ToolMessage(tc, "Plan confirmed. Proceeding with agents: "
                                      \o Join(declared_plan(steps))
                                      \o ". Remember to call independent agents in parallel by issuing multiple tool calls in a single response."))
                /\ i' = i + 1
                /\ UNCHANGED <<pc, turn, completed_agents, tool_calls, agent_keys,
                               calls, completion, msg_content, response_kind, model_calls,
                               next_id, lead, registry, request_messages, agent_vars>>

\* the unknown requests left unanswered
UnknownMessages_None == <<>>

\* the unknown requests answered last first
UnknownMessages_Reversed ==
    [j \in 1..Len(unknown_calls) |->
        ToolMessage(unknown_calls[Len(unknown_calls) + 1 - j],
                    "Unknown tool: " \o unknown_calls[Len(unknown_calls) + 1 - j].name)]

\* the tool messages of the unknown requests (orchestrator.py:234-239)
UnknownMessages ==
    [j \in 1..Len(unknown_calls) |->
        ToolMessage(unknown_calls[j], "Unknown tool: " \o unknown_calls[j].name)]

\* orchestrator.py:233-245: the unknown requests, then `continue` when the
\* response holds no specialist request, else agent_keys = []
HandleUnknown ==
    /\ pc = "plan"
    /\ i > Len(plan_calls)
    /\ messages' = messages \o UnknownMessages
    /\ IF agent_calls = <<>>
       THEN NextTurn
       ELSE /\ pc' = "plan_update"
            /\ i' = 1
            /\ agent_keys' = <<>>
            /\ UNCHANGED <<turn, tool_calls, calls, completion>>
    /\ UNCHANGED <<events, planned_agents, completed_agents, msg_content, response_kind,
                   model_calls, next_id, lead, registry, request_messages, agent_vars>>

\* every specialist key of the batch announced as an addition
not_planned_always(agent_key) == TRUE

\* no key of a batch ever added to the plan
not_planned_never(agent_key) == FALSE

\* `if agent_key not in planned_agents` (orchestrator.py:249)
not_planned(agent_key) ==
    agent_key \notin {planned_agents[j] : j \in 1..Len(planned_agents)}

\* orchestrator.py:246-256: one iteration of the plan_update loop
PlanUpdate ==
    /\ pc = "plan_update"
    /\ i <= Len(agent_calls)
    /\ LET agent_key == TOOL_TO_AGENT[agent_calls[i].name]
       IN  /\ agent_keys' = Append(agent_keys, agent_key)
           /\ IF not_planned(agent_key)
              THEN /\ planned_agents' = Append(planned_agents, agent_key)
                   /\ events' = Append(events,
                         [type |-> "plan_update",
                          agents |-> Append(planned_agents, agent_key),
                          added |-> agent_key,
                          reason |-> "Supervisor decided to also consult "
                                     \o AGENT_DISPLAY_NAMES[agent_key]])
              ELSE UNCHANGED <<planned_agents, events>>
    /\ i' = i + 1
    /\ UNCHANGED <<pc, turn, messages, completed_agents, tool_calls, calls,
                   completion, msg_content, response_kind, model_calls, next_id, lead, registry, request_messages, agent_vars>>

\* orchestrator.py:258-265
RoundStart ==
    /\ pc = "plan_update"
    /\ i > Len(agent_calls)
    /\ events' = Append(events, [type |-> "round_start", agents |-> agent_keys,
                                 parallel |-> is_parallel])
    /\ pc' = "agent_start"
    /\ i' = 1
    /\ UNCHANGED <<turn, messages, planned_agents, completed_agents, tool_calls,
                   agent_keys, calls, completion, msg_content, response_kind, model_calls,
                   next_id, lead, registry, request_messages, agent_vars>>

\* orchestrator.py:268-276: one agent_start event
AgentStart ==
    /\ pc = "agent_start"
    /\ i <= Len(agent_calls)
    /\ LET tc      == agent_calls[i]
           tc_args == load_args(tc.arguments)
       IN  IF ~tc_args.ok
           THEN Raise
           ELSE /\ events' = Append(events,
                      [type |-> "agent_start", agent |-> TOOL_TO_AGENT[tc.name],
                       task |-> Truncate(dict_get(tc_args.value, "task", ""),
                                         TaskDisplayLen)])
                /\ i' = i + 1
                /\ UNCHANGED <<pc, turn, messages, planned_agents, completed_agents,
                               tool_calls, agent_keys, calls, completion,
                               msg_content, response_kind, model_calls, next_id, lead, registry, request_messages, agent_vars>>

\* the calls of the batch awaited one after the other: only the first one
\* is started
gather_tasks_sequential(tcs) ==
    [j \in 1..Len(tcs) |->
        IF j = 1 THEN Started(tcs[j])
        ELSE [Started(tcs[j]) EXCEPT !.st = "pending"]]

\* every request of the batch sent twice
gather_tasks_twice(tcs) ==
    [j \in 1..(2 * Len(tcs)) |-> Started(tcs[((j - 1) % Len(tcs)) + 1])]

\* asyncio.gather(*[_call_agent(tc) for tc in agent_calls])
\* (orchestrator.py:299): every coroutine of the batch is scheduled before
\* orchestrate waits
gather_tasks(tcs) == [j \in 1..Len(tcs) |-> Started(tcs[j])]

\* the call that fails takes the calls still in flight down with it
resolve_call_cancelling(cs, j, outcome) ==
    LET now == Resolved(cs[j], outcome)
    IN  [k \in 1..Len(cs) |->
            IF k = j THEN now
            ELSE IF now.st = "done" /\ now.r.is_error /\ cs[k].st = "inflight"
                 THEN [cs[k] EXCEPT !.st = "done",
                                    !.outcome = [kind |-> "cancelled"],
                                    !.r = AgentResult(cs[k].r.tc, ErrorDict("cancelled"))]
                 ELSE cs[k]]

\* send_task of call j returns or raises inside its own coroutine
\* (orchestrator.py:282-297): the other coroutines of the batch are left
\* as they are
resolve_call(cs, j, outcome) == [cs EXCEPT ![j] = Resolved(cs[j], outcome)]

\* orchestrator.py:278-299: the coroutines of the batch are handed to
\* asyncio.gather and orchestrate waits for all of them
GatherStart ==
    /\ pc = "agent_start"
    /\ i > Len(agent_calls)
    /\ is_parallel
    /\ IF \E j \in 1..Len(agent_calls) : ~load_args(agent_calls[j].arguments).ok
       THEN Raise
       ELSE LET started == gather_tasks(agent_calls)
            IN  /\ calls' = started
                /\ completion' = SelectSeq([j \in 1..Len(started) |-> j],
                                           LAMBDA j : started[j].st = "done")
                /\ pc' = IF GatherReturns(started) THEN "fold" ELSE "gather"
                /\ i' = 1
                /\ UNCHANGED <<turn, messages, events, planned_agents,
                               completed_agents, tool_calls, agent_keys,
                               msg_content, response_kind, model_calls,
                               next_id, lead, registry, request_messages, agent_vars>>

\* one send_task of the batch returns or raises (orchestrator.py:290-297);
\* gather returns when the last one has returned, and raises at once when
\* one raises (orchestrator.py:299)
GatherResolve ==
    /\ pc = "gather"
    /\ \E j \in 1..Len(calls), outcome \in Outcomes :
         /\ calls[j].st = "inflight"
         /\ LET now == resolve_call(calls, j, outcome)
            IN  /\ calls' = now
                /\ completion' = Append(completion, j)
                /\ pc' = IF GatherRaises(now) THEN "crashed"
                         ELSE IF GatherReturns(now) THEN "fold"
                         ELSE "gather"
    /\ UNCHANGED <<turn, messages, events, planned_agents, completed_agents,
                   tool_calls, i, agent_keys, msg_content, response_kind,
                   model_calls, next_id, lead, registry, request_messages, agent_vars>>

\* orchestrator.py:301-314: one iteration of the fold-back loop, and
\* `continue` after the last one
FoldResult ==
    /\ pc = "fold"
    /\ i <= Len(gather_results)
    /\ LET r == gather_results[i]
       IN  /\ completed_agents' = Append(completed_agents, r.ak)
           /\ events' = Append(events, AgentResultEvent(r))
           /\ messages' = Append(messages, ToolMessage(r.tc, ResultContent(r)))
    /\ IF LastFold
       THEN NextTurn
       ELSE /\ i' = i + 1
            /\ UNCHANGED <<pc, turn, tool_calls, agent_keys, calls, completion>>
    /\ UNCHANGED <<planned_agents, msg_content, response_kind, model_calls, next_id, lead, registry, request_messages, agent_vars>>

\* the single-agent branch (orchestrator.py:315-346) has its own copy of
\* the code of _call_agent and of the fold-back loop

\* orchestrator.py:323-327
SingleNotAvailable(tc) ==
    [tc |-> tc, ak |-> TOOL_TO_AGENT[tc.name],
     result_text |-> "Agent '" \o TOOL_TO_AGENT[tc.name] \o "' not available",
     is_error |-> TRUE, tools_called |-> <<>>]

\* the flag set for every status but "success"
SingleAgentResult_NotSuccess(tc, res) ==
    [tc |-> tc, ak |-> TOOL_TO_AGENT[tc.name],
     result_text |-> dict_get(res, "result", "No result"),
     is_error |-> (dict_get(res, "status", "") # "success"),
     tools_called |-> dict_get(res, "tools_called", <<>>)]

\* orchestrator.py:329-332
SingleAgentResult(tc, res) ==
    [tc |-> tc, ak |-> TOOL_TO_AGENT[tc.name],
     result_text |-> dict_get(res, "result", "No result"),
     is_error |-> (dict_get(res, "status", "") = "error"),
     tools_called |-> dict_get(res, "tools_called", <<>>)]

\* the call with its context left out
SingleStarted_NoContext(tc) ==
    LET args == load_args(tc.arguments).value
    IN  [st      |-> IF TOOL_TO_AGENT[tc.name] \in registry THEN "inflight" ELSE "done",
         outcome |-> [kind |-> "none"],
         client  |-> TOOL_TO_AGENT[tc.name],
         task    |-> dict_get(args, "task", ""),
         context |-> "",
         r       |-> SingleNotAvailable(tc)]

\* orchestrator.py:317-329: the request up to the await of send_task, or up
\* to the not-available result when the registry has no client for the key
SingleStarted(tc) ==
    LET args == load_args(tc.arguments).value
    IN  [st      |-> IF TOOL_TO_AGENT[tc.name] \in registry THEN "inflight" ELSE "done",
         outcome |-> [kind |-> "none"],
         client  |-> TOOL_TO_AGENT[tc.name],
         task    |-> dict_get(args, "task", ""),
         context |-> dict_get(args, "context", ""),
         r       |-> SingleNotAvailable(tc)]

\* orchestrator.py:329-332: send_task has returned a dict, or the exception
\* has left it
SingleResolved(call, outcome) ==
    LET res == send_task(call.client, outcome)
    IN  IF res.raised
        THEN [call EXCEPT !.st = "raised", !.outcome = outcome]
        ELSE [call EXCEPT !.st = "done", !.outcome = outcome,
                          !.r = SingleAgentResult(call.r.tc, res.value)]

\* orchestrator.py:335-341
SingleResultEvent(r) ==
    [type |-> "agent_result", agent |-> r.ak, result |-> r.result_text,
     tools_called |-> IF ~r.is_error THEN r.tools_called ELSE <<>>,
     is_error |-> r.is_error]

\* orchestrator.py:345
SingleResultContent(r) ==
    IF ~r.is_error THEN r.result_text ELSE "ERROR: " \o r.result_text

\* orchestrator.py:316-329: the only specialist request is sent directly
SingleStart ==
    /\ pc = "agent_start"
    /\ i > Len(agent_calls)
    /\ ~is_parallel
    /\ IF ~load_args(agent_calls[1].arguments).ok
       THEN Raise
       ELSE /\ calls' = << SingleStarted(agent_calls[1]) >>
            /\ completion' = <<>>
            /\ pc' = IF SingleStarted(agent_calls[1]).st = "done"
                     THEN "single_result" ELSE "single"
            /\ UNCHANGED <<turn, messages, events, planned_agents,
                           completed_agents, tool_calls, i, agent_keys,
                           msg_content, response_kind, model_calls, next_id, lead, registry, request_messages, agent_vars>>

\* orchestrator.py:329-332: send_task returns or raises
SingleResolve ==
    /\ pc = "single"
    /\ \E outcome \in Outcomes :
         LET now == SingleResolved(calls[1], outcome)
         IN  /\ calls' = << now >>
             /\ completion' = <<1>>
             /\ pc' = IF now.st = "raised" THEN "crashed" ELSE "single_result"
    /\ UNCHANGED <<turn, messages, events, planned_agents, completed_agents,
                   tool_calls, i, agent_keys, msg_content, response_kind,
                   model_calls, next_id, lead, registry, request_messages, agent_vars>>

\* orchestrator.py:334-348: the result of the only request, then `continue`
SingleResult ==
    /\ pc = "single_result"
    /\ LET r == calls[1].r
       IN  /\ completed_agents' = Append(completed_agents, r.ak)
           /\ events' = Append(events, SingleResultEvent(r))
           /\ messages' = Append(messages, ToolMessage(r.tc, SingleResultContent(r)))
    /\ NextTurn
    /\ UNCHANGED <<planned_agents, msg_content, response_kind, model_calls, next_id, lead, registry, request_messages, agent_vars>>

\* orchestrator.py:178, 357: the turn loop is exhausted
MaxTurns ==
    /\ pc = "loop"
    /\ turn >= max_turns
    /\ events' = Append(events,
          [type |-> "error",
           error |-> "Supervisor reached maximum turns without completing."])
    /\ pc' = "returned"
    /\ UNCHANGED <<turn, messages, planned_agents, completed_agents, tool_calls,
                   i, agent_keys, calls, completion, msg_content, response_kind, model_calls,
                   next_id, lead, registry, request_messages, agent_vars>>

\* server.py:27-29: orchestrate is exhausted, event_stream yields `done`
StreamDone ==
    /\ pc = "returned"
    /\ events' = Append(events, [type |-> "done"])
    /\ pc' = "done"
    /\ UNCHANGED <<turn, messages, planned_agents, completed_agents, tool_calls,
                   i, agent_keys, calls, completion, msg_content, response_kind, model_calls,
                   next_id, lead, registry, request_messages, agent_vars>>

Next ==
    \/ Start
    \/ ModelFailure
    \/ FinalAnswer
    \/ Respond
    \/ ActionsRequested
    \/ HandlePlan
    \/ HandleUnknown
    \/ PlanUpdate
    \/ RoundStart
    \/ AgentStart
    \/ GatherStart
    \/ GatherResolve
    \/ FoldResult
    \/ SingleStart
    \/ SingleResolve
    \/ SingleResult
    \/ MaxTurns
    \/ StreamDone

Spec == Init /\ [][Next]_vars

\* the registries of a deployment: every key of TOOL_TO_AGENT has its
\* client, or AGENT_URLS (config.py:8-14) has lost the entry of one key
Registries == {agents, agents \ {"packing"}}

\* the state after construction for any of these registries
InitRegistry ==
    /\ pc = "start"
    /\ turn = 0
    /\ messages = <<>>
    /\ events = <<>>
    /\ planned_agents = <<>>
    /\ completed_agents = <<>>
    /\ tool_calls = <<>>
    /\ i = 0
    /\ agent_keys = <<>>
    /\ calls = <<>>
    /\ completion = <<>>
    /\ msg_content = NoContent
    /\ response_kind = "none"
    /\ model_calls = 0
    /\ next_id = 1
    /\ lead \in Leads
    /\ registry \in Registries
    /\ request_messages = <<>>
    /\ AgentInit

SpecRegistry == InitRegistry /\ [][Next]_vars

(***************************************************************************)
(* Vocabulary of the properties                                            *)
(***************************************************************************)
ModelErrorText == "Model API error: connection error"
MaxTurnsText   == "Supervisor reached maximum turns without completing."

EventIdx == 1..Len(events)
MsgIdx   == 1..Len(messages)

\* the number of events of a type emitted so far
Count(type) == Cardinality({k \in EventIdx : events[k].type = type})

\* the type of the n-th event from the end (0: the last one), "" if none
TypeFromEnd(n) ==
    IF Len(events) > n THEN events[Len(events) - n].type ELSE ""

\* event_stream has ended: normally, or with the exception orchestrate raised
StreamEnded == pc \in {"done", "crashed"}

AssistantIdx == {k \in MsgIdx : messages[k].role = "assistant"}
ToolIdx      == {k \in MsgIdx : messages[k].role = "tool"}

\* the round_start of the round an event at k belongs to, 0 if none
RoundOf(k) ==
    IF \E r \in 1..k : events[r].type = "round_start"
    THEN CHOOSE r \in 1..k : /\ events[r].type = "round_start"
                             /\ \A q \in 1..k : events[q].type = "round_start" => q <= r
    ELSE 0

CountBetween(type, lo, hi) ==
    Cardinality({m \in EventIdx : lo < m /\ m < hi /\ events[m].type = type})

\* the outcomes C6 names: timeout, transport failure, non-200, status "error"
IsFailure(o) ==
    \/ o.kind = "exception"
    \/ /\ o.kind = "http"
       /\ IF o.status_code # 200 THEN TRUE ELSE o.json["status"] = "error"

\* the requests named so far in the conversation
RequestedNames ==
    UNION { {messages[a].tool_calls[j].name : j \in 1..Len(messages[a].tool_calls)}
            : a \in AssistantIdx }

(***************************************************************************)
(* C1: for every run of the event stream, under any answers of the         *)
(* reasoning endpoint and any specialist outcomes, the last event emitted  *)
(* is `done` and the event before it is `response` or `error`.             *)
(***************************************************************************)
C1_LastEventDone ==
    StreamEnded =>
        /\ TypeFromEnd(0) = "done"
        /\ TypeFromEnd(1) \in {"response", "error"}

(***************************************************************************)
(* C2: pairing. Whenever orchestrate is about to call the reasoning        *)
(* endpoint and when the run has ended normally, every tool-call id of     *)
(* every assistant message has exactly one tool message, placed after that *)
(* assistant message and before the next one, and no tool message lacks a  *)
(* matching request.                                                       *)
(***************************************************************************)
PairingOK ==
    LET tools == ToolIdx
        asst  == AssistantIdx
        \* the assistant message a tool message at k answers: the last before k
        owner == [k \in tools |->
                    IF \E a \in asst : a < k
                    THEN CHOOSE a \in asst : a < k /\ \A b \in asst : b < k => b <= a
                    ELSE 0]
    IN  /\ \A a \in asst : \A j \in 1..Len(messages[a].tool_calls) :
              LET answers == {k \in tools :
                                messages[k].tool_call_id = messages[a].tool_calls[j].id}
              IN  /\ Cardinality(answers) = 1
                  /\ \A k \in answers : owner[k] = a
        /\ \A k \in tools :
              /\ owner[k] > 0
              /\ \E j \in 1..Len(messages[owner[k]].tool_calls) :
                    messages[owner[k]].tool_calls[j].id = messages[k].tool_call_id

\* pc = "loop": about to call the endpoint (or to leave the exhausted turn
\* loop); pc = "returned": orchestrate has ended normally
C2_Pairing ==
    pc \in {"loop", "returned"} => PairingOK

C2_Witness ==
    /\ pc = "loop"
    /\ turn > 0
    /\ {"create_plan", "call_hotel_agent", "call_weather_agent"} \subseteq RequestedNames
    /\ Cardinality(ToolIdx) = 3

(***************************************************************************)
(* C3: for a batch of N > 1 specialist requests the agent_result events    *)
(* and the tool messages come in the request order of the batch, whatever  *)
(* the order in which the calls completed; the j-th result message carries *)
(* the id and the result of the j-th request.                              *)
(***************************************************************************)
\* the text AgentClient.send_task gave for the outcome of call j
TextOfCall(j) ==
    dict_get(send_task(calls[j].client, calls[j].outcome).value, "result", "No result")

\* the number of results of the current batch folded back so far
Folded ==
    IF pc = "fold" THEN i - 1
    ELSE IF pc = "loop" /\ agent_calls # <<>> THEN Len(agent_calls)
    ELSE 0

\* the positions, in events and in messages, of the j-th result of the batch
ResultEventAt(j)   == Len(events) - Folded + j
ResultMessageAt(j) == Len(messages) - Folded + j

C3_RequestOrder ==
    is_parallel =>
        \A j \in 1..Folded :
            /\ events[ResultEventAt(j)].type = "agent_result"
            /\ events[ResultEventAt(j)].agent = TOOL_TO_AGENT[agent_calls[j].name]
            /\ events[ResultEventAt(j)].result = TextOfCall(j)
            /\ messages[ResultMessageAt(j)].role = "tool"
            /\ messages[ResultMessageAt(j)].tool_call_id = agent_calls[j].id
            /\ messages[ResultMessageAt(j)].content \in
                  {TextOfCall(j), "ERROR: " \o TextOfCall(j)}

C3_Witness ==
    /\ pc = "loop"
    /\ is_parallel
    /\ completion = <<2, 1>>
    /\ calls[1].client # calls[2].client
    /\ TextOfCall(1) # TextOfCall(2)

(***************************************************************************)
(* C4: fan-in barrier. While a specialist call of the current batch has    *)
(* not resolved, no agent_result of the batch has been emitted, no result  *)
(* of the batch has been appended to messages and the reasoning endpoint   *)
(* has not been called again; the next call of the endpoint comes only     *)
(* when every call of the batch has resolved and every result is appended. *)
(***************************************************************************)
SomeInflight == \E j \in 1..Len(calls) : calls[j].st = "inflight"

BatchIds == {agent_calls[j].id : j \in 1..Len(agent_calls)}

C4_Barrier ==
    /\ SomeInflight =>
          /\ pc \in {"gather", "single", "crashed"}
          /\ \A j \in 1..Len(calls) : TypeFromEnd(j - 1) = "agent_start"
          /\ TypeFromEnd(Len(calls)) = "round_start"
          /\ \A k \in ToolIdx : messages[k].tool_call_id \notin BatchIds
          /\ model_calls = turn + 1
    /\ (pc = "loop" /\ agent_calls # <<>>) =>
          /\ Len(calls) = Len(agent_calls)
          /\ \A j \in 1..Len(calls) : calls[j].st = "done"
          /\ \A id \in BatchIds : \E k \in ToolIdx : messages[k].tool_call_id = id

C4_Witness ==
    /\ pc = "gather"
    /\ Len(calls) > 1
    /\ \E j \in 1..Len(calls) : calls[j].st = "done"
    /\ SomeInflight

(***************************************************************************)
(* C5: if every call of the reasoning endpoint returns at least one action *)
(* request, the run makes exactly 15 calls of the endpoint, then emits     *)
(* exactly one error event, the maximum-turns one, and terminates; no run  *)
(* makes more than 15 calls.                                               *)
(***************************************************************************)
\* the run is over and every call of the endpoint returned tool calls
OnlyActionsRequested ==
    /\ pc \in {"returned", "done", "crashed"}
    /\ response_kind = "tools"

C5_ExactlyFifteenCalls ==
    /\ model_calls <= max_turns
    /\ OnlyActionsRequested =>
          /\ model_calls = max_turns
          /\ Count("error") = 1
          /\ \A k \in EventIdx : events[k].type = "error" => events[k].error = MaxTurnsText
          /\ pc # "crashed"

(***************************************************************************)
(* C6: a specialist failure never aborts the run. When a specialist call   *)
(* times out, fails at transport level, returns a non-200 status or        *)
(* returns status "error", send_task returns (it does not raise), the      *)
(* result has is_error = TRUE and a descriptive text, the agent_result     *)
(* event carries is_error = TRUE, the ERROR: result is appended to the     *)
(* conversation and the loop goes on to its next turn; the only error      *)
(* events are the model-failure one and the maximum-turns one.             *)
(***************************************************************************)
ErrorEventsOnlyFatal ==
    /\ Count("error") <= 1
    /\ \A k \in EventIdx : events[k].type = "error" =>
          \/ events[k].error = ModelErrorText /\ response_kind = "failure"
          \/ events[k].error = MaxTurnsText /\ response_kind = "tools" /\ turn = max_turns

C6_FailureAbsorbed ==
    /\ \A j \in 1..Len(calls) :
          IsFailure(calls[j].outcome) =>
              /\ calls[j].st = "done"
              /\ calls[j].r.is_error
              /\ calls[j].r.result_text \notin {"", "No result"}
    /\ \A j \in 1..Folded :
          IsFailure(calls[j].outcome) =>
              /\ events[ResultEventAt(j)].type = "agent_result"
              /\ events[ResultEventAt(j)].is_error
              /\ events[ResultEventAt(j)].result = calls[j].r.result_text
              /\ messages[ResultMessageAt(j)].role = "tool"
              /\ messages[ResultMessageAt(j)].tool_call_id = agent_calls[j].id
              /\ messages[ResultMessageAt(j)].content = "ERROR: " \o calls[j].r.result_text
    /\ ErrorEventsOnlyFatal

C6_Witness ==
    /\ pc = "done"
    /\ TypeFromEnd(1) = "response"
    /\ \E k \in EventIdx :
          /\ events[k].type = "agent_result"
          /\ events[k].is_error
          /\ events[k].result = "Failed to reach Weather Agent: timed out"
    /\ \E k \in EventIdx :
          /\ events[k].type = "agent_result"
          /\ events[k].is_error
          /\ events[k].result = "HTTP 500: Internal Server Error"

(***************************************************************************)
(* C7: for every response of the reasoning endpoint (also with argument    *)
(* texts that are empty or no valid JSON, and a create_plan whose steps    *)
(* lack `agent`) and every specialist outcome, orchestrate ends by         *)
(* yielding response or error and returns normally: no exception reaches   *)
(* the consumer of the event stream.                                       *)
(***************************************************************************)
C7_NoUnhandledFault ==
    /\ pc # "crashed"
    /\ pc = "returned" => TypeFromEnd(0) \in {"response", "error"}
    /\ ErrorEventsOnlyFatal

(***************************************************************************)
(* C8: when a call of the reasoning endpoint fails, the run emits exactly  *)
(* one error event and stops: the call is not retried, no further endpoint *)
(* or specialist call is made, no message is appended to the conversation  *)
(* and no synthesis_start or response event is emitted.                    *)
(***************************************************************************)
\* the assistant messages are the endpoint's answers with tool calls
AnsweredWithTools == Cardinality(AssistantIdx)

C8_AfterFailure ==
    response_kind = "failure" =>
        /\ pc \in {"returned", "done"}
        /\ Count("error") = 1
        /\ Count("synthesis_start") = 0
        /\ Count("response") = 0
        /\ TypeFromEnd(IF pc = "done" THEN 1 ELSE 0) = "error"
        /\ events[Len(events) - (IF pc = "done" THEN 1 ELSE 0)].error = ModelErrorText
        /\ model_calls = AnsweredWithTools + 1
        /\ ~SomeInflight

\* the failing call appends no message and starts no specialist call
C8_FailingStep ==
    (response_kind' = "failure" /\ response_kind # "failure") =>
        /\ messages' = messages
        /\ calls' = calls
        /\ model_calls' = model_calls + 1
        /\ events' = Append(events, [type |-> "error", error |-> ModelErrorText])

\* after the failure: nothing but the `done` of the stream
C8_Stopped ==
    response_kind = "failure" =>
        /\ messages' = messages
        /\ calls' = calls
        /\ model_calls' = model_calls
        /\ response_kind' = "failure"
        /\ events' = events \/ events' = Append(events, [type |-> "done"])

C8_ModelFailureFatal ==
    /\ []C8_AfterFailure
    /\ [][C8_FailingStep]_vars
    /\ [][C8_Stopped]_vars

C8_Witness ==
    /\ response_kind = "failure"
    /\ pc = "done"
    /\ turn > 0
    /\ completed_agents # <<>>

(***************************************************************************)
(* C9: when the reasoning endpoint returns a response without action       *)
(* requests, the run emits synthesis_start, immediately followed by one    *)
(* response event with the text of the response (the empty string when the *)
(* text is absent), and ends without a further specialist or endpoint      *)
(* call; every response event is immediately preceded by synthesis_start.  *)
(***************************************************************************)
\* the text the response event has to carry
AnswerText == IF msg_content.present THEN msg_content.text ELSE ""

C9_FinalAnswer ==
    /\ \A k \in EventIdx :
          events[k].type = "response" => k > 1 /\ events[k - 1].type = "synthesis_start"
    /\ Count("response") <= 1
    /\ response_kind = "final" =>
          /\ pc \in {"synth", "returned", "done"}
          /\ model_calls = AnsweredWithTools + 1
          /\ ~SomeInflight
          /\ Count("synthesis_start") = 1
          /\ Count("error") = 0
          /\ pc = "synth" => TypeFromEnd(0) = "synthesis_start"
          /\ pc = "returned" =>
                /\ TypeFromEnd(1) = "synthesis_start"
                /\ events[Len(events)] = [type |-> "response", text |-> AnswerText]
          /\ pc = "done" =>
                /\ TypeFromEnd(2) = "synthesis_start"
                /\ events[Len(events) - 1] = [type |-> "response", text |-> AnswerText]
                /\ TypeFromEnd(0) = "done"
    /\ Count("synthesis_start") > 0 => response_kind = "final"

C9_Witness ==
    /\ pc = "done"
    /\ response_kind = "final"
    /\ ~msg_content.present
    /\ events[Len(events) - 1] = [type |-> "response", text |-> ""]
    /\ completed_agents # <<>>

(***************************************************************************)
(* C10: within every round, all agent_start events of the round come after *)
(* its round_start and before any agent_result of the round, and every     *)
(* agent_result of the round comes before the next round_start,            *)
(* synthesis_start or error; for batches of one and of several requests.   *)
(***************************************************************************)
C10_RoundOrder ==
    /\ \A k \in EventIdx :
          events[k].type \in {"agent_start", "agent_result"} =>
              LET r == RoundOf(k)
              IN  /\ r > 0
                  /\ \A m \in (r + 1)..(k - 1) :
                        /\ events[m].type \in {"agent_start", "agent_result"}
                        /\ events[k].type = "agent_start" => events[m].type = "agent_start"
    /\ \A k \in EventIdx :
          (events[k].type \in {"round_start", "synthesis_start", "error"} /\ RoundOf(k - 1) > 0) =>
              LET r == RoundOf(k - 1)
              IN  /\ CountBetween("agent_start", r, k) = Len(events[r].agents)
                  /\ CountBetween("agent_result", r, k) = Len(events[r].agents)

C10_Witness ==
    /\ pc = "done"
    /\ \E r \in EventIdx : events[r].type = "round_start" /\ events[r].parallel
    /\ \E r \in EventIdx : events[r].type = "round_start" /\ ~events[r].parallel
    /\ Count("agent_result") = 3

(***************************************************************************)
(* C11: an unknown action is answered, never executed, and aborts nothing  *)
(***************************************************************************)
\* the names orchestrate knows: the planning tool and the specialist tools
KnownNames == {"create_plan"} \cup DOMAIN TOOL_TO_AGENT

\* the requests of the conversation so far, as <<message, position>> pairs
AllRequests ==
    UNION { {<<a, j>> : j \in 1..Len(messages[a].tool_calls)} : a \in AssistantIdx }

SpecialistRequests ==
    {q \in AllRequests : messages[q[1]].tool_calls[q[2]].name \in DOMAIN TOOL_TO_AGENT}

\* the positions of the current response that name no tool
UnknownPositions == {j \in 1..Len(tool_calls) : tool_calls[j].name \notin KnownNames}

\* the result messages that answer request j of the current response
AnswersTo(j) == {k \in ToolIdx : messages[k].tool_call_id = tool_calls[j].id}

\* the current turn has gone past its plan and unknown requests
PastUnknown == tool_calls # <<>> /\ pc \notin {"plan", "crashed"}

\* the agent keys announced by all round_start events so far
RoundStartKeys ==
    UNION { {<<k, j>> : j \in 1..Len(events[k].agents)}
            : k \in {e \in EventIdx : events[e].type = "round_start"} }

TurnOver == pc = "loop" /\ tool_calls # <<>>

\* the ids of the result messages the turn appended, in message order
TurnResultIds ==
    [k \in 1..Len(tool_calls) |->
        messages[Len(messages) - Len(tool_calls) + k].tool_call_id]

\* the position of the result message of request j among those of the turn
ResultPos(j) ==
    CHOOSE k \in 1..Len(tool_calls) : TurnResultIds[k] = tool_calls[j].id

\* the group a request is handled in: the plan requests, then the unknown
\* ones, then the specialist ones
KindRank(tc) ==
    IF tc.name = "create_plan" THEN 1
    ELSE IF tc.name \in DOMAIN TOOL_TO_AGENT THEN 3
    ELSE 2

EnvelopeReceived(j) ==
    /\ calls[j].st = "done"
    /\ calls[j].outcome.kind = "http"
    /\ calls[j].outcome.status_code = 200

\* the status of the envelope of call j, "(missing)" when it has none
EnvelopeStatus(j) == dict_get(calls[j].outcome.json, "status", "(missing)")

\* the result message of a result carries the ERROR: prefix
HasErrorPrefix(r) ==
    /\ Len(ResultContent(r)) >= 7
    /\ SubSeq(ResultContent(r), 1, 7) = "ERROR: "

\* C13: for every envelope received with HTTP 200, the is_error of the
\* agent_result event and the ERROR: prefix of the result message are set
\* if and only if the status of the envelope is not "success", for every
\* status value
C13_ErrorIffNotSuccess ==
    \A j \in 1..Len(calls) :
        EnvelopeReceived(j) =>
            /\ AgentResultEvent(calls[j].r).is_error <=> EnvelopeStatus(j) # "success"
            /\ HasErrorPrefix(calls[j].r) <=> EnvelopeStatus(j) # "success"

(***************************************************************************)
(* C14: send_task never raises                                             *)
(***************************************************************************)
\* send_task of call j has met the outcome of its request
Met(j) == calls[j].outcome.kind # "none"

\* the outcome is anything but a reply with HTTP 200
NotDelivered(o) ==
    \/ o.kind \in {"auth", "exception"}
    \/ o.kind = "http" /\ o.status_code # 200

\* C14: whatever its request meets (a timeout, a transport failure, a
\* non-200 reply, a failure while the request is prepared), send_task
\* returns: it never raises, and what it returns for such an outcome is an
\* error with a text and no sub-tool descriptors
C14_SendTaskNeverRaises ==
    \A j \in 1..Len(calls) :
        Met(j) =>
            /\ calls[j].st = "done"
            /\ NotDelivered(calls[j].outcome) =>
                   /\ calls[j].r.is_error
                   /\ calls[j].r.result_text # ""
                   /\ calls[j].r.tools_called = <<>>

(***************************************************************************)
(* C15: a failing call of a batch leaves its siblings alone                *)
(***************************************************************************)
\* what call j yields when send_task has met the outcome of its own request
OwnResult(j) ==
    AgentResult(calls[j].r.tc, send_task(calls[j].client, calls[j].outcome).value)

\* some call of the batch has failed: send_task has returned an error
SomeFailed ==
    \E j \in 1..Len(calls) : calls[j].st = "done" /\ IsFailure(calls[j].outcome)

InBatch ==
    pc \in {"plan_update", "agent_start", "gather", "fold", "single", "single_result"}

\* the specialist requests of the batch the plan_update loop has gone through
Processed == IF pc = "plan_update" THEN i - 1 ELSE Len(agent_calls)

BatchKey(j) == TOOL_TO_AGENT[agent_calls[j].name]

\* the place of the round_start of the batch among the events (one past the
\* end while it is not emitted yet)
RoundStartAt == IF pc = "plan_update" THEN Len(events) + 1 ELSE RoundOf(Len(events))

\* the number of plan_update events that stand right before RoundStartAt
NumUpdates ==
    CHOOSE n \in 0..(RoundStartAt - 1) :
        /\ \A k \in 1..n : events[RoundStartAt - k].type = "plan_update"
        /\ n < RoundStartAt - 1 => events[RoundStartAt - n - 1].type # "plan_update"

\* the k-th plan_update event of the batch
UpdateEvent(k) == events[RoundStartAt - NumUpdates - 1 + k]

\* the plan as it was when the batch began
PlanBefore == SubSeq(planned_agents, 1, Len(planned_agents) - NumUpdates)

SeqRange(seq) == {seq[k] : k \in 1..Len(seq)}

\* C18: before the round_start of a batch, the keys of the batch that the
\* plan did not hold are appended to it, each one once and in request
\* order, each with exactly one plan_update event naming it as added and
\* carrying the plan as extended so far; a key the plan held already, or
\* that an earlier request of the same batch added, gets no plan_update;
\* afterwards every key of the batch is in the plan
C18_PlanUpdates ==
    InBatch =>
        /\ NumUpdates <= Len(planned_agents)
        /\ \A k \in 1..NumUpdates :
               /\ UpdateEvent(k).added = planned_agents[Len(PlanBefore) + k]
               /\ UpdateEvent(k).agents = SubSeq(planned_agents, 1, Len(PlanBefore) + k)
               /\ UpdateEvent(k).added \notin SeqRange(PlanBefore)
               /\ \A m \in 1..NumUpdates : UpdateEvent(m).added = UpdateEvent(k).added => m = k
               /\ \E j \in 1..Processed :
                      /\ BatchKey(j) = UpdateEvent(k).added
                      /\ \A m \in 1..(k - 1) :
                             \E h \in 1..(j - 1) : BatchKey(h) = UpdateEvent(m).added
        /\ {UpdateEvent(k).added : k \in 1..NumUpdates}
              = {BatchKey(j) : j \in 1..Processed} \ SeqRange(PlanBefore)
        /\ \A j \in 1..Processed : BatchKey(j) \in SeqRange(planned_agents)
        /\ agent_keys = [j \in 1..Processed |-> BatchKey(j)]

\* the round of a batch [weather, packing] has started after a plan that
\* declared weather alone: one plan_update, for packing
C18_Witness ==
    /\ pc = "agent_start"
    /\ Count("plan") = 1
    /\ agent_keys = <<"weather", "packing">>
    /\ planned_agents = <<"weather", "packing">>
    /\ NumUpdates = 1
    /\ UpdateEvent(1).added = "packing"

(***************************************************************************)
(* C19: one round_start per turn that requests specialists                 *)
(***************************************************************************)
\* the specialist keys an assistant message requests, in request order
KeysRequested(a) ==
    LET reqs == SelectSeq(messages[a].tool_calls,
                          LAMBDA tc : tc.name \in DOMAIN TOOL_TO_AGENT)
    IN  [j \in 1..Len(reqs) |-> TOOL_TO_AGENT[reqs[j].name]]

\* the turns, named by their assistant message, that request a specialist
SpecialistTurns == {a \in AssistantIdx : KeysRequested(a) # <<>>}

RoundStarts == {e \in EventIdx : events[e].type = "round_start"}

\* the specialist turn the round_start at e belongs to: the one with as
\* many specialist turns up to it as there are round_start events up to e
TurnOfRound(e) ==
    {a \in SpecialistTurns :
        Cardinality({b \in SpecialistTurns : b <= a})
          = Cardinality({f \in RoundStarts : f <= e})}

\* the current turn has emitted its round_start, if it has one to emit
PastRoundStart == pc \notin {"plan", "plan_update", "crashed"}

PlanRequests == SelectSeq(tool_calls, LAMBDA tc : tc.name = "create_plan")

\* the steps a create_plan request declares, and their agent keys
StepsOf(tc)  == dict_get(load_args(tc.arguments).value, "steps", <<>>)
AgentsOf(tc) == [j \in 1..Len(StepsOf(tc)) |-> StepsOf(tc)[j]["agent"]]

PlanAckText(keys) ==
    "Plan confirmed. Proceeding with agents: " \o Join(keys)
    \o ". Remember to call independent agents in parallel by issuing multiple tool calls in a single response."

\* the create_plan requests of the current response handled so far
PlansHandled ==
    IF pc = "plan" THEN i - 1
    ELSE IF InBatch \/ TurnOver THEN Len(PlanRequests)
    ELSE 0

\* the place of the assistant message of the current response
LastAssistant == CHOOSE a \in AssistantIdx : \A b \in AssistantIdx : b <= a

\* the place, among the events, of the plan event of the k-th create_plan
\* request while the turn is being handled
PlanEventAt(k) ==
    IF pc = "plan" THEN Len(events) - PlansHandled + k
    ELSE RoundStartAt - NumUpdates - PlansHandled - 1 + k

PlanAcks ==
    {k \in ToolIdx :
        /\ Len(messages[k].content) >= 15
        /\ SubSeq(messages[k].content, 1, 15) = "Plan confirmed."}

\* C20, for the requests handled: each create_plan request a turn has
\* handled has set the declared plan to the agents of its own steps (the
\* plan is replaced, and later only extended by the plan_update of the
\* batch), has one plan event
\* carrying its steps and those agents, and has one acknowledging result
\* message with its id; the acknowledgements come right after the
\* assistant message and the plan events before every plan_update and the
\* round_start of the turn, and no specialist call is in flight while the
\* plan requests are handled
C20_PlanHandling ==
    /\ Count("plan") = Cardinality(PlanAcks)
    /\ pc = "plan" => ~SomeInflight
    /\ \A k \in 1..PlansHandled :
          /\ messages[LastAssistant + k]
                = ToolMessage(PlanRequests[k], PlanAckText(AgentsOf(PlanRequests[k])))
          /\ Cardinality({m \in ToolIdx :
                            messages[m].tool_call_id = PlanRequests[k].id}) = 1
    /\ (pc = "plan" \/ InBatch) =>
          \A k \in 1..PlansHandled :
              events[PlanEventAt(k)]
                = [type |-> "plan", steps |-> StepsOf(PlanRequests[k]),
                   agents |-> AgentsOf(PlanRequests[k])]
    /\ (pc = "plan" /\ PlansHandled > 0) =>
          planned_agents = AgentsOf(PlanRequests[PlansHandled])
    /\ (InBatch /\ PlansHandled > 0) =>
          PlanBefore = AgentsOf(PlanRequests[PlansHandled])

\* C20 for every create_plan request: what C20_PlanHandling says of the
\* requests handled so far, and no run stops while a create_plan request of
\* its last response is without its acknowledging result message
C20_EveryPlanRequest ==
    /\ C20_PlanHandling
    /\ pc = "crashed" =>
          \A k \in 1..Len(PlanRequests) :
              \E m \in ToolIdx : messages[m].tool_call_id = PlanRequests[k].id

\* a response that holds create_plan (one step, for weather) and a request
\* to the packing specialist has reached its round: plan, then plan_update
\* for packing, then round_start
C20_Witness ==
    /\ pc = "agent_start"
    /\ Len(tool_calls) = 2
    /\ Len(PlanRequests) = 1
    /\ AgentsOf(PlanRequests[1]) = <<"weather">>
    /\ planned_agents = <<"weather", "packing">>
    /\ TypeFromEnd(0) = "round_start"
    /\ TypeFromEnd(1) = "plan_update"
    /\ TypeFromEnd(2) = "plan"

(***************************************************************************)
(* C21: the error flag, the ERROR: prefix and the sub-tool descriptors     *)
(***************************************************************************)
\* the tools_called list the specialist of call j sent, empty when no
\* envelope came back
SpecialistTools(j) ==
    IF calls[j].outcome.kind = "http"
    THEN IF calls[j].outcome.status_code = 200
         THEN dict_get(calls[j].outcome.json, "tools_called", <<>>)
         ELSE <<>>
    ELSE <<>>

\* C21: for every specialist request folded back, in the parallel and in
\* the single-agent branch alike, the result message carries the id of the
\* request and its content is "ERROR: " followed by the result text when
\* the agent_result event has is_error set and the bare result text when it
\* has not; the tools_called of the event is empty when is_error is set and
\* is the list the specialist sent otherwise
C21_ErrorMarking ==
    \A j \in 1..Folded :
        /\ events[ResultEventAt(j)].type = "agent_result"
        /\ messages[ResultMessageAt(j)].role = "tool"
        /\ messages[ResultMessageAt(j)].tool_call_id = agent_calls[j].id
        /\ messages[ResultMessageAt(j)].content
              = IF events[ResultEventAt(j)].is_error
                THEN "ERROR: " \o events[ResultEventAt(j)].result
                ELSE events[ResultEventAt(j)].result
        /\ events[ResultEventAt(j)].tools_called
              = IF events[ResultEventAt(j)].is_error
                THEN <<>>
                ELSE SpecialistTools(j)

\* a batch of two is folded back: the first specialist reported an error
\* in an envelope that lists a sub-tool, the second one succeeded
C21_Witness ==
    /\ TurnOver
    /\ is_parallel
    /\ Folded = 2
    /\ events[ResultEventAt(1)].is_error
    /\ SpecialistTools(1) # <<>>
    /\ events[ResultEventAt(1)].tools_called = <<>>
    /\ ~events[ResultEventAt(2)].is_error
    /\ events[ResultEventAt(2)].tools_called # <<>>

(***************************************************************************)
(* C22: the conversation is seeded and append-only                         *)
(***************************************************************************)
SeedMessages ==
    << [role |-> "system", content |-> "SUPERVISOR_SYSTEM_PROMPT"],
       [role |-> "user", content |-> "user_message"] >>

\* the conversation starts with the seed, and is the seed alone at the
\* first call of the endpoint
C22_Seeded ==
    /\ pc = "start" => messages = <<>>
    /\ pc # "start" => /\ Len(messages) >= 2
                       /\ SubSeq(messages, 1, 2) = SeedMessages
    /\ (pc = "loop" /\ model_calls = 0) => messages = SeedMessages
    /\ model_calls = 1 => request_messages = SeedMessages

\* a step leaves the messages it found in place, and a step that calls the
\* endpoint hands it the conversation as it stands
C22_Step ==
    /\ Len(messages) <= Len(messages')
    /\ SubSeq(messages', 1, Len(messages)) = messages
    /\ model_calls' # model_calls => request_messages' = messages

\* C22: the conversation is seeded with exactly the system instruction and
\* the user request; after every step the previous value of messages is a
\* prefix of the current one; every call of the reasoning endpoint is given
\* the whole conversation so far
C22_AppendOnly == []C22_Seeded /\ [][C22_Step]_vars

\* the endpoint has just been called for the third time, with a
\* conversation that holds the seed and the messages of two turns
C22_Witness ==
    /\ pc = "synth"
    /\ model_calls = 3
    /\ Len(messages) >= 6
    /\ request_messages = messages

(***************************************************************************)
(* C23: repeated requests for a specialist are not de-duplicated           *)
(***************************************************************************)
SpecialistKeys == {TOOL_TO_AGENT[n] : n \in DOMAIN TOOL_TO_AGENT}

\* the request at <<message, position>>, and the key it asks for
RequestAt(q) == messages[q[1]].tool_calls[q[2]]
KeyOf(q)     == TOOL_TO_AGENT[RequestAt(q).name]

RequestsFor(key) == {q \in SpecialistRequests : KeyOf(q) = key}

EventsFor(type, key) ==
    {e \in EventIdx : events[e].type = type /\ events[e].agent = key}

CompletedFor(key) ==
    {c \in 1..Len(completed_agents) : completed_agents[c] = key}

PlanUpdatesFor(key) ==
    {e \in EventIdx : events[e].type = "plan_update" /\ events[e].added = key}

\* orchestrate is between two turns, or has ended normally
Quiescent == pc \in {"loop", "synth", "returned", "done"}

RequestedNow ==
    SelectSeq(tool_calls, LAMBDA tc : tc.name \in DOMAIN TOOL_TO_AGENT)

\* the keys requested so far in the run
RequestedKeys == {KeyOf(q) : q \in SpecialistRequests}

EventTypes == [e \in EventIdx |-> events[e].type]

\* the responses with tool calls received so far, as sequences of
\* <<name, arguments>>
ResponsesSoFar ==
    LET n == Cardinality(AssistantIdx)
        at(k) == CHOOSE a \in AssistantIdx :
                    Cardinality({b \in AssistantIdx : b <= a}) = k
    IN  [k \in 1..n |->
            [j \in 1..Len(messages[at(k)].tool_calls) |->
                << messages[at(k)].tool_calls[j].name,
                   messages[at(k)].tool_calls[j].arguments >>]]

\* the run of the example: the endpoint announced a plan with budget
\* alone, then requested the budget action alone, then answered, and the
\* stream is closed
BudgetRun ==
    /\ pc = "done"
    /\ response_kind = "final"
    /\ ResponsesSoFar = << << <<"create_plan", BudgetStepsJson>> >>,
                           << <<"call_budget_agent", "">> >> >>

\* C24: the calls of a batch are exactly one per specialist request of the
\* response, in request order and for the key of the request, and no call
\* is in flight outside the batch; agent_start, agent_result and
\* round_start only ever name keys that were requested, so a create_plan
\* that names a specialist triggers no call to it; and the run of the
\* example streams status, plan, round_start (not parallel, [budget]),
\* agent_start, agent_result (budget), synthesis_start, response, done
C24_OnlyOnRequest ==
    /\ pc \in {"gather", "fold", "single", "single_result"} =>
          /\ Len(calls) = Len(RequestedNow)
          /\ \A j \in 1..Len(calls) :
                /\ calls[j].r.tc = RequestedNow[j]
                /\ calls[j].client = TOOL_TO_AGENT[RequestedNow[j].name]
    /\ SomeInflight => pc \in {"gather", "single", "crashed"}
    /\ LET keys == RequestedKeys
       IN  \A e \in EventIdx :
             /\ events[e].type \in {"agent_start", "agent_result"} =>
                   events[e].agent \in keys
             /\ events[e].type = "round_start" =>
                   \A j \in 1..Len(events[e].agents) : events[e].agents[j] \in keys
    /\ BudgetRun =>
          /\ EventTypes = << "status", "plan", "round_start", "agent_start",
                             "agent_result", "synthesis_start", "response", "done" >>
          /\ events[2].agents = <<"budget">>
          /\ events[3].agents = <<"budget">>
          /\ ~events[3].parallel
          /\ events[4].agent = "budget"
          /\ events[5].agent = "budget"

\* the run of the example has ended with its eight events
C24_Witness ==
    /\ BudgetRun
    /\ Len(events) = 8
    /\ events[5].type = "agent_result"
    /\ events[5].agent = "budget"
    /\ Count("plan_update") = 0

(***************************************************************************)
(* C25: routing of a request and of its arguments                          *)
(***************************************************************************)
\* the task and the context an argument text holds, "" when it holds none
ArgTask(text) ==
    CASE text = TaskJson    -> "forecast"
      [] text = ContextJson -> "pack"
      [] OTHER              -> ""

ArgContext(text) == IF text = ContextJson THEN "rainy" ELSE ""

\* C25: in the single-agent and in the parallel branch alike, the calls of
\* a batch are one per specialist request, each handed to the client of
\* the key its action name maps to in TOOL_TO_AGENT, with the task and the
\* context of the request's arguments unchanged, and with the empty string
\* for the one the arguments do not hold
C25_Routing ==
    pc \in {"gather", "fold", "single", "single_result"} =>
        /\ Len(calls) = Len(RequestedNow)
        /\ \A j \in 1..Len(calls) :
              /\ calls[j].client = TOOL_TO_AGENT[RequestedNow[j].name]
              /\ calls[j].client \in SpecialistKeys
              /\ calls[j].task = ArgTask(RequestedNow[j].arguments)
              /\ calls[j].context = ArgContext(RequestedNow[j].arguments)

\* second round: after a round with weather alone, the packing request is
\* in flight at the packing client with its task and its context
C25_Witness ==
    /\ pc = "single"
    /\ model_calls = 2
    /\ Cardinality(RoundStarts) = 2
    /\ \E e \in RoundStarts : events[e].agents = <<"weather">>
    /\ calls[1].st = "inflight"
    /\ calls[1].client = "packing"
    /\ calls[1].task = "pack"
    /\ calls[1].context = "rainy"

(***************************************************************************)
(* C26: the single-agent branch against the parallel branch                *)
(***************************************************************************)
\* what _call_agent of the parallel branch returns for a call with the same
\* request, the same registry and the same outcome
ParallelResult(call) ==
    IF call.client \notin registry
    THEN NotAvailable(call.r.tc)
    ELSE AgentResult(call.r.tc, send_task(call.client, call.outcome).value)

\* a turn with exactly one specialist request is over
SingleTurnOver == TurnOver /\ Len(RequestedNow) = 1

\* C26: for a batch of one request, what the single-agent branch yields
\* and appends is what the fold-back of the parallel branch yields and
\* appends for the result _call_agent returns for that request: the same
\* agent_result event, the same result message, the same entry of the
\* completed list, whether the specialist succeeded, reported an error (or
\* any other status), could not be reached, or has no client in the
\* registry
C26_SingleAsParallel ==
    /\ pc = "single_result" => calls[1].r = ParallelResult(calls[1])
    /\ SingleTurnOver =>
          /\ Len(calls) = 1
          /\ calls[1].r.tc = RequestedNow[1]
          /\ events[Len(events)] = AgentResultEvent(ParallelResult(calls[1]))
          /\ messages[Len(messages)]
                = ToolMessage(RequestedNow[1], ResultContent(ParallelResult(calls[1])))
          /\ completed_agents[Len(completed_agents)] = ParallelResult(calls[1]).ak
          /\ Len(completed_agents) = Count("agent_result")

\* a turn with the packing request alone is over in a deployment whose
\* registry has no packing client
C26_Witness ==
    /\ SingleTurnOver
    /\ "packing" \notin registry
    /\ RequestedNow[1].name = "call_packing_agent"
    /\ calls[1].outcome.kind = "none"
    /\ events[Len(events)].type = "agent_result"
    /\ events[Len(events)].result = "Agent 'packing' not available"
    /\ messages[Len(messages)].content = "ERROR: Agent 'packing' not available"

(***************************************************************************)
(* C27: the declared plan and the specialists already run                  *)
(***************************************************************************)
PlanEvents == {e \in EventIdx : events[e].type = "plan"}

\* the agent_result events with no plan event after them up to position h
RunSincePlan(h) ==
    {e \in EventIdx :
        /\ e < h
        /\ events[e].type = "agent_result"
        /\ \A p \in PlanEvents : ~(e < p /\ p < h)}

\* C27 as stated: at every point of a run every key of the completed list
\* is in the declared plan, and the agents of every plan and plan_update
\* event hold every specialist already run
C27_Cumulative ==
    /\ \A c \in 1..Len(completed_agents) :
          completed_agents[c] \in SeqRange(planned_agents)
    /\ \A e \in EventIdx :
          events[e].type \in {"plan", "plan_update"} =>
              \A r \in EventIdx :
                  (r < e /\ events[r].type = "agent_result") =>
                      events[r].agent \in SeqRange(events[e].agents)

\* C27 amended: a create_plan request replaces the declared plan, so the
\* plan is cumulative from one create_plan to the next only: every
\* specialist run since the last plan event is in the declared plan, and
\* the agents of every plan_update event hold every specialist run since
\* the plan event before it
C27_SinceLastPlan ==
    /\ \A r \in RunSincePlan(Len(events) + 1) :
          events[r].agent \in SeqRange(planned_agents)
    /\ \A u \in EventIdx :
          events[u].type = "plan_update" =>
              \A r \in RunSincePlan(u) :
                  events[r].agent \in SeqRange(events[u].agents)

\* weather was run, then a create_plan without steps was handled, then
\* packing was run: the plan holds packing alone
C27_Witness ==
    /\ pc = "loop"
    /\ completed_agents = <<"weather", "packing">>
    /\ planned_agents = <<"packing">>
    /\ Count("plan") = 1

(***************************************************************************)
(* C28: the terminal event is the only one and the last one                *)
(***************************************************************************)
NumTerminal == Count("response") + Count("error")

\* orchestrate has returned: the run has ended normally
EndedNormally == pc \in {"returned", "done"}

\* there is never more than one terminal event; a run that has ended
\* normally has exactly one; once it is there orchestrate has returned, no
\* specialist call is in flight, and it is the last event orchestrate
\* yielded (only the done of event_stream may follow)
C28_State ==
    /\ NumTerminal <= 1
    /\ EndedNormally => NumTerminal = 1
    /\ NumTerminal = 1 =>
          /\ EndedNormally
          /\ ~SomeInflight
          /\ pc = "returned" => TypeFromEnd(0) \in {"response", "error"}
          /\ pc = "done" => /\ TypeFromEnd(0) = "done"
                            /\ TypeFromEnd(1) \in {"response", "error"}

\* after the terminal event nothing is appended to the conversation, no
\* endpoint or specialist call is made, and no event follows but the done
\* with which event_stream closes the stream
C28_Step ==
    EndedNormally =>
        /\ messages' = messages
        /\ model_calls' = model_calls
        /\ calls' = calls
        /\ \/ events' = events
           \/ pc = "returned" /\ events' = Append(events, [type |-> "done"])

\* C28: every run that ends normally emits exactly one of response and
\* error, never both and never two of a kind, and after it orchestrate
\* emits nothing, calls nothing and appends nothing
C28_TerminalFinal == []C28_State /\ [][C28_Step]_vars

\* the stream of a run that consulted a specialist is closed after its
\* response
C28_Witness ==
    /\ pc = "done"
    /\ TypeFromEnd(1) = "response"
    /\ NumTerminal = 1
    /\ Count("agent_result") >= 1

(***************************************************************************)
(* C29: agent_start, agent_result and the completed list count the same    *)
(***************************************************************************)
\* the endpoint is about to be called, or the run is over, normally or with
\* the exception orchestrate raised
CallOrEnd == pc \in {"loop", "synth", "returned", "done", "crashed"}

\* C29: there are never more agent_result than agent_start events, the
\* agent_result events are as many as the entries of the completed list,
\* and at every call of the endpoint and at the end of the run the
\* agent_start events, the agent_result events and the completed entries
\* are equally many
C29_Counting ==
    /\ Count("agent_result") <= Count("agent_start")
    /\ Count("agent_result") = Len(completed_agents)
    /\ CallOrEnd =>
          /\ Count("agent_start") = Count("agent_result")
          /\ Count("agent_start") = Len(completed_agents)

\* the same counting for the runs no exception ends
C29_CountingHandled ==
    /\ Count("agent_result") <= Count("agent_start")
    /\ Count("agent_result") = Len(completed_agents)
    /\ (CallOrEnd /\ pc # "crashed") =>
          /\ Count("agent_start") = Count("agent_result")
          /\ Count("agent_start") = Len(completed_agents)

(***************************************************************************)
(* C30: a requested specialist with no client in the registry              *)
(***************************************************************************)
\* the registry has no client for the key of call j
Unavailable(j) == calls[j].client \notin registry

NotAvailableText(key) == "Agent '" \o key \o "' not available"

\* a call without a client never goes to the network and is over at once
\* with the not-available error; a sibling that is over carries the result
\* of the outcome its own request met; the folded request gets the
\* agent_result and the ERROR: message with its id
C30_State ==
    /\ \A j \in 1..Len(calls) :
          /\ Unavailable(j) =>
                /\ calls[j].st = "done"
                /\ calls[j].outcome.kind = "none"
                /\ calls[j].r.ak = calls[j].client
                /\ calls[j].r.result_text = NotAvailableText(calls[j].client)
                /\ calls[j].r.is_error
                /\ calls[j].r.tools_called = <<>>
          /\ (~Unavailable(j) /\ calls[j].st = "done") =>
                /\ calls[j].outcome \in Outcomes
                /\ calls[j].r = OwnResult(j)
    /\ \A j \in 1..Folded :
          /\ calls[j].r.tc = agent_calls[j]
          /\ Unavailable(j) =>
                /\ events[ResultEventAt(j)]
                      = [type |-> "agent_result", agent |-> calls[j].client,
                         result |-> NotAvailableText(calls[j].client),
                         tools_called |-> <<>>, is_error |-> TRUE]
                /\ messages[ResultMessageAt(j)]
                      = ToolMessage(agent_calls[j],
                                    "ERROR: " \o NotAvailableText(calls[j].client))
          /\ ~Unavailable(j) =>
                events[ResultEventAt(j)] = AgentResultEvent(OwnResult(j))

\* a batch ends the run only when a send_task of it raises, which a call
\* without a client never does: otherwise the batch is folded back and the
\* loop goes on
C30_Step ==
    (pc \in {"gather", "single"} /\ pc' = "crashed") =>
        \E j \in 1..Len(calls') : ~Unavailable(j) /\ calls'[j].st = "raised"

\* C30: when the registry has no client for the key of a specialist
\* request, no network call is made for the request; it gets an
\* agent_result with is_error set, no tools_called and the text
\* "Agent '<key>' not available", and a result message with the id of the
\* request and the ERROR: prefix; the other requests of the batch get the
\* results of their own outcomes, and the run goes on
C30_NotAvailable == []C30_State /\ [][C30_Step]_vars

\* a batch of weather and packing is over in a deployment without a
\* packing client: weather answered while packing was already refused,
\* both are folded back and the loop goes on
C30_Witness ==
    /\ TurnOver
    /\ Len(calls) = 2
    /\ is_parallel
    /\ "packing" \notin registry
    /\ calls[1].client = "weather"
    /\ calls[2].client = "packing"
    /\ completion = <<2, 1>>
    /\ calls[1].outcome.kind = "http"
    /\ calls[1].outcome.status_code = 200
    /\ events[ResultEventAt(1)].result = "sunny, 21C"
    /\ ~events[ResultEventAt(1)].is_error
    /\ events[ResultEventAt(2)].is_error
    /\ messages[ResultMessageAt(2)].tool_call_id = agent_calls[2].id
    /\ messages[ResultMessageAt(2)].content = "ERROR: Agent 'packing' not available"

(***************************************************************************)
(* C31: the maximum-turns error and the fifteen calls of the endpoint      *)
(***************************************************************************)
\* the error event of orchestrator.py:357 has been yielded
MaxTurnsError ==
    \E k \in EventIdx : events[k].type = "error" /\ events[k].error = MaxTurnsText

\* the endpoint has been called max_turns times and every call returned
\* tool calls (a call that returns none, or fails, is the last of its run)
AllCallsRequestedActions == model_calls = max_turns /\ response_kind = "tools"

\* orchestrate is over: it has returned, or an exception has left it
RunOver == pc \in {"returned", "done", "crashed"}

\* a call of the endpoint returned no tool calls, and the run is over
AnsweredAndOver == RunOver /\ response_kind = "final"

\* C31: the maximum-turns error is there only after 15 calls that all
\* returned action requests, a run that is over has it if and only if its
\* 15 calls all returned action requests, and a run in which some call, the
\* 15th included, returned no action requests ends with synthesis_start,
\* response and no error
C31_MaxTurnsIff ==
    /\ MaxTurnsError => AllCallsRequestedActions
    /\ RunOver => (MaxTurnsError <=> AllCallsRequestedActions)
    /\ AnsweredAndOver =>
          /\ model_calls \in 1..max_turns
          /\ Count("synthesis_start") = 1
          /\ Count("response") = 1
          /\ Count("error") = 0

\* the same for the runs no exception ends
C31_MaxTurnsHandled ==
    /\ MaxTurnsError => AllCallsRequestedActions
    /\ (RunOver /\ pc # "crashed") => (MaxTurnsError <=> AllCallsRequestedActions)
    /\ AnsweredAndOver =>
          /\ model_calls \in 1..max_turns
          /\ Count("synthesis_start") = 1
          /\ Count("response") = 1
          /\ Count("error") = 0

\* the 15th call returned no action requests after 14 turns of requests
C31_FifteenthAnswers ==
    /\ AnsweredAndOver
    /\ model_calls = max_turns

(***************************************************************************)
(* The specialist process: run_task of agent-transport and agent-packing   *)
(***************************************************************************)
\* agent-transport/agent.py:61, agent-packing/agent.py:71
rt_max_turns == 8

\* most run_task calls one process serves
MaxTasks == 2
\* largest number of tool calls in one response of the specialist's model
RtMaxBatch == 2
\* largest number of tool calls the model requests in one task, the
\* leading filler turns not counted
RtMaxRequests == 3
\* the turns left to the model after the leading filler turns of a long task
RtTailTurns == 2

Services == {"Transport", "Packing"}

\* one entry of the tool list of GET /api/tools (mcp-transport/server.py:139-156)
Tool(name) ==
    [k \in {"name", "description"} |-> IF k = "name" THEN name ELSE "d"]

TravelTools == << Tool("get_travel_options") >>
MoreTools   == << Tool("get_travel_options"), Tool("get_flight_info") >>
\* a tool list with an entry that has no "name"
NamelessTools == << Tool("get_travel_options"), [k \in {"description"} |-> "d"] >>

\* the outcomes of one GET /api/tools: get_auth_headers raises before the
\* request is sent, the request times out, the server answers 500, the
\* body is not JSON, the body is a JSON object (with or without "tools")
ListOutcomes ==
    { [kind |-> "auth"],
      [kind |-> "exception", err |-> "timed out"],
      [kind |-> "http", status_code |-> 500, json |-> [ok |-> FALSE, value |-> <<>>]],
      [kind |-> "http", status_code |-> 200, json |-> [ok |-> FALSE, value |-> <<>>]],
      [kind |-> "http", status_code |-> 200,
       json |-> [ok |-> TRUE, value |-> [k \in {"tools"} |-> TravelTools]]],
      [kind |-> "http", status_code |-> 200,
       json |-> [ok |-> TRUE, value |-> [k \in {"tools"} |-> MoreTools]]],
      [kind |-> "http", status_code |-> 200,
       json |-> [ok |-> TRUE, value |-> [k \in {"tools"} |-> NamelessTools]]],
      [kind |-> "http", status_code |-> 200,
       json |-> [ok |-> TRUE, value |-> [k \in {} |-> <<>>]]] }

\* the request of the outcome reached the network
Sent(outcome) == outcome.kind # "auth"

\* what the exception of a failed request says
ErrorText(outcome) ==
    CASE outcome.kind = "auth" -> "default auth: cannot configure default credentials"
      [] outcome.kind = "exception" -> outcome.err
      [] outcome.kind = "http" /\ outcome.status_code # 200 ->
             "Server error '" \o ToString(outcome.status_code) \o "'"
      [] OTHER -> "Expecting value"

\* MCPClient.list_tools past the cache test (mcp_client.py:21-27): raised
\* when get_auth_headers, the request, raise_for_status, resp.json() or
\* the t['name'] of the log line raises; tools is data.get("tools", [])
fetch_tools(outcome) ==
    IF outcome.kind # "http"
    THEN [raised |-> TRUE, tools |-> <<>>, error |-> ErrorText(outcome)]
    ELSE IF outcome.status_code # 200 \/ ~outcome.json.ok
    THEN [raised |-> TRUE, tools |-> <<>>, error |-> ErrorText(outcome)]
    ELSE LET tools == dict_get(outcome.json.value, "tools", <<>>)
         IN  IF \E j \in 1..Len(tools) : "name" \notin DOMAIN tools[j]
             THEN [raised |-> TRUE, tools |-> <<>>, error |-> "'name'"]
             ELSE [raised |-> FALSE, tools |-> tools, error |-> ""]

\* whatever the fetch ended with is stored
cache_after_always(cache, fetched) == Cached(fetched.tools)

\* mcp_client.py:28: a fetch that raised stores nothing
cache_after(cache, fetched) ==
    IF fetched.raised THEN cache ELSE Cached(fetched.tools)

\* the outcomes of one POST /api/call (mcp_client.py:31-46,
\* mcp-transport/server.py:158-168)
ToolResult(result, isError) ==
    [k \in {"result", "isError"} |-> IF k = "result" THEN result ELSE isError]

CallOutcomes ==
    { [kind |-> "exception", err |-> "timed out"],
      [kind |-> "http", status_code |-> 200,
       json |-> ToolResult("JFK: 40 min by train", FALSE)],
      [kind |-> "http", status_code |-> 200,
       json |-> ToolResult("Unknown tool: get_visa_rules", TRUE)],
      [kind |-> "http", status_code |-> 200, json |-> [k \in {} |-> ""]] }

\* the outcome of the tool calls of the filler turns
FillerOutcome ==
    [kind |-> "http", status_code |-> 200,
     json |-> ToolResult("JFK: 40 min by train", FALSE)]

\* MCPClient.call_tool (mcp_client.py:31-46)
call_tool(outcome) ==
    IF outcome.kind # "http"
    THEN [raised |-> TRUE, value |-> [k \in {} |-> ""], error |-> ErrorText(outcome)]
    ELSE IF outcome.status_code # 200
    THEN [raised |-> TRUE, value |-> [k \in {} |-> ""], error |-> ErrorText(outcome)]
    ELSE [raised |-> FALSE, value |-> outcome.json, error |-> ""]

\* agent.py:101-108: result_text and is_error of one tool call
tool_result(outcome) ==
    LET res == call_tool(outcome)
    IN  IF res.raised
        THEN [result_text |-> "Tool execution error: " \o res.error, is_error |-> TRUE]
        ELSE [result_text |-> dict_get(res.value, "result", "No result"),
              is_error |-> dict_get(res.value, "isError", FALSE)]

\* the tool calls the specialist's model may request
RtShapes ==
    { [name |-> "get_travel_options", arguments |-> TaskJson],
      [name |-> "get_travel_options", arguments |-> ""],
      [name |-> "get_travel_options", arguments |-> BrokenJson],
      [name |-> "get_visa_rules",     arguments |-> TaskJson] }

RtBatches == UNION { [1..n -> RtShapes] : n \in 1..RtMaxBatch }

RtFillerBatch == << [name |-> "get_travel_options", arguments |-> TaskJson] >>

RtLeads == {0, rt_max_turns - RtTailTurns}

\* the responses with tool calls the model may give in the current turn
RtTurnBatches ==
    IF rt_turn < rt_lead THEN {RtFillerBatch}
    ELSE {b \in RtBatches : Len(b) <= RtMaxRequests - rt_requested}

\* msg.content of the responses with tool calls of the current turn
RtTurnContents == IF rt_turn < rt_lead THEN {NoContent} ELSE Contents

\* the model gives each tool call of a task a fresh id
RtWithIds(batch) ==
    [j \in 1..Len(batch) |->
        [id |-> 10 * (rt_model_calls + 1) + j,
         name |-> batch[j].name, arguments |-> batch[j].arguments]]

\* the result envelope (agent.py:38)
RtEnvelope(status, result, tools) ==
    [status |-> status, result |-> result, tools_called |-> tools]

SystemPromptOf(service) ==
    IF service = "Transport" THEN "TRANSPORT_SYSTEM_PROMPT" ELSE "PACKING_SYSTEM_PROMPT"

\* agent.py:51-54
RtSeed(service) ==
    << [role |-> "system", content |-> SystemPromptOf(service)],
       [role |-> "user", content |-> "task_description"] >>

\* run_task returns `envelope`
RtReturn(envelope) ==
    /\ rt_return' = envelope
    /\ rt_pc' = "returned"

\* agent.py:30-40: the process receives a task; the locals of run_task
\* are fresh
RunTask ==
    /\ rt_pc \in {"idle", "returned", "raised"}
    /\ rt_tasks < MaxTasks
    /\ rt_tasks' = rt_tasks + 1
    /\ rt_lead' \in RtLeads
    /\ rt_pc' = "list"
    /\ rt_turn' = 0
    /\ rt_mcp_tools' = <<>>
    /\ rt_messages' = <<>>
    /\ rt_tools_called' = <<>>
    /\ rt_tool_calls' = <<>>
    /\ rt_i' = 0
    /\ rt_return' = NoReturn
    /\ rt_model_calls' = 0
    /\ rt_mcp_calls' = <<>>
    /\ rt_requested' = 0
    /\ rt_response_kind' = "none"
    /\ UNCHANGED <<rt_service, mcp_vars, orchestrator_vars>>

\* agent.py:42-59 with mcp_client.py:17-29: the tool list comes from the
\* cache or from a fetch; a fetch that raises ends the task with the
\* error envelope of line 46, otherwise the conversation is seeded
ListTools ==
    /\ rt_pc = "list"
    /\ \/ /\ tools_cache.present
          /\ rt_mcp_tools' = tools_cache.tools
          /\ rt_messages' = RtSeed(rt_service)
          /\ rt_pc' = "loop"
          /\ UNCHANGED <<rt_return, tools_cache, tool_requests>>
       \/ /\ ~tools_cache.present
          /\ \E outcome \in ListOutcomes :
                LET fetched == fetch_tools(outcome)
                IN  /\ tool_requests' = tool_requests + (IF Sent(outcome) THEN 1 ELSE 0)
                    /\ tools_cache' = cache_after(tools_cache, fetched)
                    /\ IF fetched.raised
                       THEN /\ RtReturn(RtEnvelope("error",
                                   "Failed to connect to " \o rt_service
                                       \o " MCP server: " \o fetched.error, <<>>))
                            /\ UNCHANGED <<rt_mcp_tools, rt_messages>>
                       ELSE /\ rt_mcp_tools' = fetched.tools
                            /\ rt_messages' = RtSeed(rt_service)
                            /\ rt_pc' = "loop"
                            /\ UNCHANGED rt_return
    /\ UNCHANGED <<rt_turn, rt_tools_called, rt_tool_calls, rt_i, rt_model_calls,
                   rt_mcp_calls, rt_requested, rt_lead, rt_tasks, rt_service,
                   rt_response_kind, list_calls, orchestrator_vars>>

\* agent.py:63-72: the call of the model raises
RtModelFailure ==
    /\ rt_pc = "loop"
    /\ rt_turn < rt_max_turns
    /\ rt_model_calls' = rt_model_calls + 1
    /\ rt_response_kind' = "failure"
    /\ RtReturn(RtEnvelope("error", "Model API error: connection error",
                           rt_tools_called))
    /\ UNCHANGED <<rt_turn, rt_mcp_tools, rt_messages, rt_tools_called,
                   rt_tool_calls, rt_i, rt_mcp_calls, rt_requested, rt_lead,
                   rt_tasks, rt_service, mcp_vars, orchestrator_vars>>

\* agent.py:77, 119-123: the model returns no tool calls
RtFinalAnswer ==
    /\ rt_pc = "loop"
    /\ rt_turn < rt_max_turns
    /\ rt_turn >= rt_lead
    /\ rt_model_calls' = rt_model_calls + 1
    /\ rt_response_kind' = "final"
    /\ \E content \in Contents :
          RtReturn(RtEnvelope("success", content_or_empty(content), rt_tools_called))
    /\ UNCHANGED <<rt_turn, rt_mcp_tools, rt_messages, rt_tools_called,
                   rt_tool_calls, rt_i, rt_mcp_calls, rt_requested, rt_lead,
                   rt_tasks, rt_service, mcp_vars, orchestrator_vars>>

\* agent.py:77-89: the model returns tool calls; the assistant message
\* with all of them is appended
RtToolCalls ==
    /\ rt_pc = "loop"
    /\ rt_turn < rt_max_turns
    /\ rt_model_calls' = rt_model_calls + 1
    /\ rt_response_kind' = "tools"
    /\ \E batch \in RtTurnBatches, content \in RtTurnContents :
          /\ rt_tool_calls' = RtWithIds(batch)
          /\ rt_messages' = Append(rt_messages,
                                   AssistantMessage(content, RtWithIds(batch)))
          /\ rt_requested' = rt_requested + (IF rt_turn < rt_lead THEN 0 ELSE Len(batch))
    /\ rt_i' = 1
    /\ rt_pc' = "tools"
    /\ UNCHANGED <<rt_turn, rt_mcp_tools, rt_tools_called, rt_return, rt_mcp_calls,
                   rt_lead, rt_tasks, rt_service, mcp_vars, orchestrator_vars>>

\* the outcomes the tool call of the current turn may meet
RtCallOutcomes == IF rt_turn < rt_lead THEN {FillerOutcome} ELSE CallOutcomes

\* agent.py:92-118: one iteration of the tool loop, and `continue` after
\* the last one. json.loads (line 96) is outside the try of line 101: when
\* it raises, the exception leaves run_task
ToolCall ==
    /\ rt_pc = "tools"
    /\ rt_i <= Len(rt_tool_calls)
    /\ LET tc   == rt_tool_calls[rt_i]
           args == load_args(tc.arguments)
       IN  IF ~args.ok
           THEN /\ rt_pc' = "raised"
                /\ UNCHANGED <<rt_turn, rt_messages, rt_tools_called, rt_i, rt_mcp_calls>>
           ELSE \E outcome \in RtCallOutcomes :
                  /\ rt_tools_called' = Append(rt_tools_called,
                         [tool |-> tc.name, arguments |-> args.value])
                  /\ rt_mcp_calls' = Append(rt_mcp_calls,
                         [name |-> tc.name, arguments |-> args.value,
                          id |-> tc.id, outcome |-> outcome])
                  /\ rt_messages' = Append(rt_messages,
                         ToolMessage(tc, tool_result(outcome).result_text))
                  /\ rt_i' = rt_i + 1
                  /\ IF rt_i = Len(rt_tool_calls)
                     THEN rt_turn' = rt_turn + 1 /\ rt_pc' = "loop"
                     ELSE UNCHANGED <<rt_turn, rt_pc>>
    /\ UNCHANGED <<rt_mcp_tools, rt_tool_calls, rt_return, rt_model_calls,
                   rt_requested, rt_lead, rt_tasks, rt_service, rt_response_kind,
                   mcp_vars, orchestrator_vars>>

\* agent.py:125: the loop has run max_turns times
RtMaxTurns ==
    /\ rt_pc = "loop"
    /\ rt_turn >= rt_max_turns
    /\ RtReturn(RtEnvelope("error", "Agent reached maximum turns without final answer",
                           rt_tools_called))
    /\ UNCHANGED <<rt_turn, rt_mcp_tools, rt_messages, rt_tools_called,
                   rt_tool_calls, rt_i, rt_model_calls, rt_mcp_calls, rt_requested,
                   rt_lead, rt_tasks, rt_service, rt_response_kind, mcp_vars,
                   orchestrator_vars>>

NextRunTask ==
    \/ RunTask
    \/ ListTools
    \/ RtModelFailure
    \/ RtFinalAnswer
    \/ RtToolCalls
    \/ ToolCall
    \/ RtMaxTurns

\* the specialist process of either service before its first task
InitRunTask ==
    /\ pc = "start"
    /\ turn = 0
    /\ messages = <<>>
    /\ events = <<>>
    /\ planned_agents = <<>>
    /\ completed_agents = <<>>
    /\ tool_calls = <<>>
    /\ i = 0
    /\ agent_keys = <<>>
    /\ calls = <<>>
    /\ completion = <<>>
    /\ msg_content = NoContent
    /\ response_kind = "none"
    /\ model_calls = 0
    /\ next_id = 1
    /\ lead = 0
    /\ registry = agents
    /\ request_messages = <<>>
    /\ rt_pc = "idle"
    /\ rt_turn = 0
    /\ rt_mcp_tools = <<>>
    /\ rt_messages = <<>>
    /\ rt_tools_called = <<>>
    /\ rt_tool_calls = <<>>
    /\ rt_i = 0
    /\ rt_return = NoReturn
    /\ rt_model_calls = 0
    /\ rt_mcp_calls = <<>>
    /\ rt_requested = 0
    /\ rt_lead = 0
    /\ rt_tasks = 0
    /\ rt_service \in Services
    /\ rt_response_kind = "none"
    /\ tools_cache = NoCache
    /\ list_calls = <<>>
    /\ tool_requests = 0

SpecRunTask == InitRunTask /\ [][NextRunTask]_vars

(***************************************************************************)
(* C32: run_task always returns an envelope                                *)
(***************************************************************************)
RtMsgIdx == 1..Len(rt_messages)

\* the tool messages of the task that answer the tool call with this id
RtAnswersTo(id) ==
    {m \in RtMsgIdx : rt_messages[m].role = "tool" /\ rt_messages[m].tool_call_id = id}

\* the tools_called entries of the calls of mcp.call_tool, in order
ToolsCalledOf(mcp_calls) ==
    [j \in 1..Len(mcp_calls) |->
        [tool |-> mcp_calls[j].name, arguments |-> mcp_calls[j].arguments]]

\* tool listing failed: run_task returned before it seeded the conversation
ListingFailed == rt_pc = "returned" /\ rt_messages = <<>>

MaxTurnsEnvelopeText == "Agent reached maximum turns without final answer"

\* what run_task guarantees while no exception leaves it: at most 8 model
\* calls; tools_called is the list of the tool calls attempted, in order;
\* every attempted tool call, failed or not, has exactly one tool message
\* with its id and its result text, and a failed one does not end the
\* task; the envelope has status "success" exactly when a model call
\* returned no tool calls, and status "error" when tool listing failed, a
\* model call failed, or all 8 model calls requested tools
C32_WhileNotRaised ==
    /\ rt_model_calls <= rt_max_turns
    /\ rt_tools_called = ToolsCalledOf(rt_mcp_calls)
    /\ \A j \in 1..Len(rt_mcp_calls) :
          /\ Cardinality(RtAnswersTo(rt_mcp_calls[j].id)) = 1
          /\ \A m \in RtAnswersTo(rt_mcp_calls[j].id) :
                rt_messages[m].content = tool_result(rt_mcp_calls[j].outcome).result_text
          /\ call_tool(rt_mcp_calls[j].outcome).raised =>
                \A m \in RtAnswersTo(rt_mcp_calls[j].id) :
                    rt_messages[m].content
                        = "Tool execution error: " \o ErrorText(rt_mcp_calls[j].outcome)
    /\ Cardinality({m \in RtMsgIdx : rt_messages[m].role = "tool"}) = Len(rt_mcp_calls)
    /\ rt_pc = "returned" =>
          /\ rt_return.status \in {"success", "error"}
          /\ rt_return.status = "success" <=> rt_response_kind = "final"
          /\ rt_return.tools_called = rt_tools_called
          /\ ListingFailed =>
                /\ rt_model_calls = 0
                /\ rt_return.status = "error"
                /\ rt_return.tools_called = <<>>
          /\ rt_response_kind = "failure" => rt_return.status = "error"
          /\ rt_response_kind = "tools" =>
                /\ rt_model_calls = rt_max_turns
                /\ rt_return = RtEnvelope("error", MaxTurnsEnvelopeText, rt_tools_called)
          /\ rt_response_kind = "none" => ListingFailed

\* C32: run_task always ends with a result envelope and never raises; it
\* makes at most 8 model calls; the status is "success" exactly when a
\* model call returned no tool calls and "error" when tool listing or a
\* model call failed or all 8 calls requested tools; a failing tool call
\* is answered with exactly one tool message and the loop goes on;
\* tools_called lists the tool calls attempted so far in order
C32_AlwaysEnvelope ==
    /\ rt_pc # "raised"
    /\ C32_WhileNotRaised

\* a task whose 8 model calls all requested tools, one of which timed out
C32_EightToolTurns ==
    /\ rt_pc = "returned"
    /\ rt_model_calls = rt_max_turns
    /\ rt_response_kind = "tools"
    /\ \E j \in 1..Len(rt_mcp_calls) : rt_mcp_calls[j].outcome.kind = "exception"

(***************************************************************************)
(* The specialist process: concurrent calls of MCPClient.list_tools        *)
(***************************************************************************)
\* most calls of list_tools
MaxListCalls == 4

\* the outcomes of a request that was sent
SentOutcomes == {o \in ListOutcomes : Sent(o)}

\* the calls of list_tools that are over
CallsOver == {j \in 1..Len(list_calls) : list_calls[j].st # "fetching"}

\* a call of list_tools as it stands at its first suspension: `after` is
\* the set of calls that were over and `seen` the cache when it started
ListCall(st, sent, value) ==
    [st |-> st, sent |-> sent, value |-> value, outcome |-> [kind |-> "none"],
     after |-> CallsOver, seen |-> tools_cache]

\* mcp_client.py:17-23: list_tools is called and runs to its first await:
\* it returns the cache, or get_auth_headers raises, or the request is sent
ListToolsCalled ==
    /\ Len(list_calls) < MaxListCalls
    /\ \/ /\ tools_cache.present
          /\ list_calls' = Append(list_calls,
                                  ListCall("returned", FALSE, tools_cache.tools))
          /\ UNCHANGED tool_requests
       \/ /\ ~tools_cache.present
          /\ list_calls' = Append(list_calls,
                 [ListCall("raised", FALSE, <<>>) EXCEPT !.outcome = [kind |-> "auth"]])
          /\ UNCHANGED tool_requests
       \/ /\ ~tools_cache.present
          /\ list_calls' = Append(list_calls, ListCall("fetching", TRUE, <<>>))
          /\ tool_requests' = tool_requests + 1
    /\ UNCHANGED <<tools_cache, run_task_vars, orchestrator_vars>>

\* mcp_client.py:23-29: the request of call j is over; the call raises, or
\* stores the tool list and returns it
ListToolsFetched ==
    /\ \E j \in 1..Len(list_calls), outcome \in SentOutcomes :
          /\ list_calls[j].st = "fetching"
          /\ LET fetched == fetch_tools(outcome)
             IN  /\ tools_cache' = cache_after(tools_cache, fetched)
                 /\ list_calls' =
                       [list_calls EXCEPT
                          ![j].st = IF fetched.raised THEN "raised" ELSE "returned",
                          ![j].value = fetched.tools,
                          ![j].outcome = outcome]
    /\ UNCHANGED <<tool_requests, run_task_vars, orchestrator_vars>>

NextListTools ==
    \/ ListToolsCalled
    \/ ListToolsFetched

SpecListTools == InitRunTask /\ [][NextListTools]_vars

(***************************************************************************)
(* C33: list_tools caches successful discoveries only                      *)
(***************************************************************************)
ListIdx == 1..Len(list_calls)

\* call j fetched the tool list from the server and returned it
SuccessfulFetch(j) == list_calls[j].st = "returned" /\ list_calls[j].sent

\* call j returned without a network request
ServedFromCache(j) == list_calls[j].st = "returned" /\ ~list_calls[j].sent

\* the server answered 200 with a JSON object whose tools all have a name
GoodBody(o) ==
    /\ o.kind = "http"
    /\ o.status_code = 200
    /\ o.json.ok
    /\ \A t \in 1..Len(dict_get(o.json.value, "tools", <<>>)) :
          "name" \in DOMAIN dict_get(o.json.value, "tools", <<>>)[t]

\* the lists of the successful fetches that were over when call k started
FetchedBefore(k) ==
    {list_calls[j].value : j \in {x \in list_calls[k].after : SuccessfulFetch(x)}}

\* no fetch was in flight when call k started
QuietAt(k) == \A j \in 1..(k - 1) : j \in list_calls[k].after

\* the cache holds a list exactly when a fetch has succeeded, and then the
\* list of a successful fetch; a call that fetched returns the list the
\* server sent, a call that raised met a failure; a call that starts with
\* the cache unset fetches, one that starts with the cache set returns
\* the cached list without a request
C33_CacheSound ==
    /\ tools_cache.present <=> \E j \in ListIdx : SuccessfulFetch(j)
    /\ tools_cache.present =>
          \E j \in ListIdx : SuccessfulFetch(j) /\ tools_cache.tools = list_calls[j].value
    /\ tool_requests = Cardinality({j \in ListIdx : list_calls[j].sent})
    /\ \A k \in ListIdx :
          /\ SuccessfulFetch(k) =>
                /\ GoodBody(list_calls[k].outcome)
                /\ list_calls[k].value
                      = dict_get(list_calls[k].outcome.json.value, "tools", <<>>)
          /\ list_calls[k].st = "raised" => ~GoodBody(list_calls[k].outcome)
          /\ ~list_calls[k].seen.present =>
                \/ list_calls[k].sent
                \/ list_calls[k].st = "raised" /\ list_calls[k].outcome.kind = "auth"
          /\ list_calls[k].seen.present =>
                /\ ServedFromCache(k)
                /\ list_calls[k].value = list_calls[k].seen.tools
          /\ list_calls[k].seen.present <=> FetchedBefore(k) # {}
          /\ ServedFromCache(k) => list_calls[k].value \in FetchedBefore(k)

\* every call that starts after a successful fetch returns the list of
\* that fetch
C33_SameListAfterFetch ==
    \A k \in ListIdx : \A j \in list_calls[k].after :
        SuccessfulFetch(j) =>
            /\ ServedFromCache(k)
            /\ list_calls[k].value = list_calls[j].value

\* C33 as stated: the cache holds successful discoveries only, a failed
\* fetch leaves it unset, concurrent first calls each return a fetched
\* list, and after one successful fetch every later call returns the same
\* tool list without a network request
C33_CachedOnce == C33_CacheSound /\ C33_SameListAfterFetch

\* once the cache is set and no fetch is in flight, every later call
\* returns the same list
C33_StableWhenQuiet ==
    \A k \in ListIdx : \A n \in ListIdx :
        (ServedFromCache(k) /\ QuietAt(k) /\ n > k) =>
            /\ ServedFromCache(n)
            /\ list_calls[n].value = list_calls[k].value

C33_State == C33_CacheSound /\ C33_StableWhenQuiet

\* a fetch that fails leaves the cache as it is, and the cache changes
\* only when a fetch succeeds, to the list of that fetch
C33_Step ==
    /\ (\E j \in ListIdx : list_calls[j].st = "fetching" /\ list_calls'[j].st = "raised")
          => tools_cache' = tools_cache
    /\ tools_cache' # tools_cache =>
          \E j \in ListIdx :
              /\ list_calls[j].st = "fetching"
              /\ list_calls'[j].st = "returned"
              /\ tools_cache' = Cached(list_calls'[j].value)

\* C33 amended: list_tools caches successful discoveries only; a call
\* that starts when the cache is set returns the cached list without a
\* network request; the cached list is that of the successful fetch that
\* completed last, so later calls return one and the same list once no
\* fetch begun before the first success is still in flight; a failed fetch
\* leaves the cache as it was; concurrent first calls each return the list
\* they fetched
C33_CacheLatest == []C33_State /\ [][C33_Step]_vars

\* two first calls fetched concurrently and got different lists: a call
\* between their completions got the first list from the cache, a call
\* after both got the second
C33_Witness ==
    /\ Len(list_calls) = 4
    /\ SuccessfulFetch(1)
    /\ SuccessfulFetch(2)
    /\ list_calls[2].after = {}
    /\ list_calls[1].value = TravelTools
    /\ list_calls[2].value = MoreTools
    /\ ServedFromCache(3)
    /\ list_calls[3].after = {1}
    /\ list_calls[3].value = TravelTools
    /\ ServedFromCache(4)
    /\ list_calls[4].value = MoreTools
    /\ tool_requests = 2
====
